---- MODULE Spec2Model ----
(***************************************************************************)
(* Model of the query engine of lets-build-a-database (crates/core):       *)
(* the logical-to-physical rewrite (query/to_physical_plan.rs), the        *)
(* executor run_physical_plan (query.rs) and its operators (query/from.rs, *)
(* query/filter.rs, query/project.rs, query/join.rs, query/order_by.rs)    *)
(* over the static catalog (catalog.rs) and the built-in rows of the       *)
(* tables animal and species.                                              *)
(*                                                                         *)
(* A plan is built bottom-up on a small stack: every action is one arm of  *)
(* run_physical_plan applied to the results of its children, so that the   *)
(* stack top always holds a plan, the QueryStep (or error) the executor    *)
(* returns for it, and the QuerySteps of its children.  RunQuery is        *)
(* run_query on the finished plan: to_physical_plan, then                  *)
(* run_physical_plan on the rewritten tree.                                *)
(***************************************************************************)
EXTENDS Integers, Sequences, FiniteSets, TLC

(***************************************************************************)
(* The field names of the records of this model.  Every record below lists *)
(* its fields in this (alphabetical) order.                                *)
(***************************************************************************)
FieldNames ==
    [alias |-> "alias", animal |-> "animal", animal_id |-> "animal_id",
     animal_name |-> "animal_name", args |-> "args", asc |-> "asc",
     column |-> "column", columns |-> "columns", constraint |-> "constraint",
     constructed |-> "constructed", cost |-> "cost", distinct |-> "distinct",
     expr |-> "expr", fields |-> "fields", filter |-> "filter",
     from |-> "from", function_name |-> "function_name", index |-> "index",
     indexes |-> "indexes", inputs |-> "inputs",
     join_operator |-> "join_operator", join_type |-> "join_type",
     joins |-> "joins", kind |-> "kind", left |-> "left",
     left_from |-> "left_from", limit |-> "limit",
     limit_clause |-> "limit_clause", literal |-> "literal",
     logical |-> "logical", n |-> "n", name |-> "name", node |-> "node",
     on |-> "on", op |-> "op", order |-> "order", order_by |-> "order_by",
     order_by_exprs |-> "order_by_exprs", plan |-> "plan",
     projection |-> "projection", relation |-> "relation", right |-> "right",
     right_from |-> "right_from", rows |-> "rows", s |-> "s",
     schema |-> "schema", selection |-> "selection", size |-> "size",
     species |-> "species", species_id |-> "species_id",
     species_name |-> "species_name", status |-> "status", step |-> "step",
     table_alias |-> "table_alias", table_name |-> "table_name",
     tag |-> "tag", value |-> "value", values |-> "values"]

VARIABLES
    hasher,         \* the hash function of this process run (see calculate_hash)
    stack,          \* plans under construction, with their results
    query,          \* argument of the last run_query
    physical_plan,  \* to_physical_plan(query)
    result,         \* run_physical_plan(physical_plan)
    call,           \* a function of the crate applied on its own, with its arguments
    returned        \* what the call returned

vars == <<hasher, stack, query, physical_plan, result, call, returned>>

(***************************************************************************)
(* Bounds of the model.                                                    *)
(***************************************************************************)
\* number of operator nodes of the plans on the stack
MaxOps == 3
\* largest LIMIT tried
MaxLimit == 2
\* number of hash values of the colliding hash function
HashMod == 2
MaxRows == 3

(***************************************************************************)
(* Values: serde_json::Value restricted to null, bool, i64 and string.     *)
(* Every value is a record of the same shape, so that values of different  *)
(* kinds can be compared: they are then simply unequal.                     *)
(***************************************************************************)
Null == [kind |-> "null", n |-> 0, s |-> ""]
BoolV(b) == [kind |-> "bool", n |-> IF b THEN 1 ELSE 0, s |-> ""]
IntV(i) == [kind |-> "int", n |-> i, s |-> ""]
StrV(str) == [kind |-> "str", n |-> 0, s |-> str]
\* the number i + 0.5, which is no i64 (Number::as_i64 is None)
FloatV(i) == [kind |-> "float", n |-> i, s |-> ""]

\* The strings of the tables, in lexicographic (byte) order.
Strings == <<"bird", "dog", "horse", "mammal", "reptile", "snake">>

StrRank(str) == CHOOSE i \in 1..Len(Strings) : Strings[i] = str

(***************************************************************************)
(* Column references and schemas (types.rs).  None is the empty alias.     *)
(***************************************************************************)
NoAlias == ""

Column(name, table_alias) == [name |-> name, table_alias |-> table_alias]

SchemaColumnColumn(column) ==
    [name |-> column.name, table_alias |-> column.table_alias, tag |-> "Column"]

SchemaColumnNamed(string) ==
    [name |-> string, table_alias |-> NoAlias, tag |-> "Named"]

(***************************************************************************)
(* The catalog (catalog.rs) and the row source (from.rs).                  *)
(***************************************************************************)
TableNames == {"animal", "species"}

Index(table_name, columns) == [columns |-> columns, table_name |-> table_name]

get_static_catalog ==
    [animal |-> [columns |-> <<"animal_id", "animal_name", "species_id">>,
         indexes |-> << Index("animal", <<"animal_id">>),
                        Index("animal", <<"species_id">>) >>],
     species |-> [columns |-> <<"species_id", "species_name">>,
         indexes |-> << Index("species", <<"species_id">>) >>]]

raw_rows_for_table(table_name) ==
    IF table_name = "animal"
    THEN << [animal_id |-> IntV(1), animal_name |-> StrV("horse"), species_id |-> IntV(1)],
            [animal_id |-> IntV(2), animal_name |-> StrV("dog"), species_id |-> IntV(1)],
            [animal_id |-> IntV(3), animal_name |-> StrV("snake"), species_id |-> IntV(2)] >>
    ELSE << [species_id |-> IntV(1), species_name |-> StrV("mammal")],
            [species_id |-> IntV(2), species_name |-> StrV("reptile")],
            [species_id |-> IntV(3), species_name |-> StrV("bird")] >>

schema(table_name) == get_static_catalog[table_name].columns

(***************************************************************************)
(* Results.  A QueryStep is (schema, rows, cost); Result<QueryStep,        *)
(* QueryError> is a record whose status is "ok" or the name of the error;  *)
(* "panic" is a process abort (panic!, todo!, unwrap on None).  A Row is   *)
(* modelled by its items.                                                   *)
(***************************************************************************)
NoColumn == Column("", NoAlias)

QueryStep(sch, rows, cost) ==
    [column |-> NoColumn, cost |-> cost, rows |-> rows, schema |-> sch, status |-> "ok"]

QueryError(kind, column) ==
    [column |-> column, cost |-> 0, rows |-> << >>, schema |-> << >>, status |-> kind]

Panic == QueryError("panic", NoColumn)

\* Result<serde_json::Value, QueryError>
OkValue(v) == [column |-> NoColumn, status |-> "ok", value |-> v]
ErrValue(kind, column) == [column |-> column, status |-> kind, value |-> Null]

Range(seq) == {seq[i] : i \in DOMAIN seq}

Min(a, b) == IF a <= b THEN a ELSE b

\* the sequences of at most two elements of S
SeqsUpTo2(S) == {<< >>} \cup {<< x >> : x \in S} \cup {<< x, y >> : x \in S, y \in S}

\* the first position of seq that satisfies Test, 0 when there is none
FirstIndex(seq, Test(_)) ==
    IF \E i \in DOMAIN seq : Test(seq[i])
    THEN CHOOSE i \in DOMAIN seq : Test(seq[i]) /\ \A j \in 1..(i - 1) : ~Test(seq[j])
    ELSE 0

(***************************************************************************)
(* types.rs: Schema and Row.                                               *)
(***************************************************************************)
\* Option<usize>: 0 is None, i > 0 is the (1-based) position
\* get_index_for_column that looks at the name alone
get_index_for_columnByName(sch, column) ==
    FirstIndex(sch, LAMBDA sc : sc.tag = "Column" /\ sc.name = column.name)

get_index_for_column(sch, column) ==
    FirstIndex(sch, LAMBDA sc : sc.tag = "Column" /\ sc.name = column.name
                                  /\ sc.table_alias = column.table_alias)

get_index_for_named(sch, named) ==
    FirstIndex(sch, LAMBDA sc : sc.tag = "Named" /\ sc.name = named)

\* Option<&Value> as a set: empty is None
get_column(row, column, sch) ==
    LET index == get_index_for_column(sch, column)
    IN  IF index = 0 \/ index > Len(row) THEN {} ELSE {row[index]}

\* Display of Column: alias.name, or the name alone
ColumnDisplay(column) ==
    IF column.table_alias = NoAlias THEN column.name
    ELSE column.table_alias \o "." \o column.name

\* Display of SchemaColumn
SchemaColumnDisplay(schema_column) ==
    IF schema_column.tag = "Column"
    THEN ColumnDisplay(Column(schema_column.name, schema_column.table_alias))
    ELSE schema_column.name

\* row.get_column or row.get_named for the schema column: the position in
\* the row, 0 for None
JsonIndex(sch, schema_column) ==
    IF schema_column.tag = "Column"
    THEN get_index_for_column(sch, Column(schema_column.name, schema_column.table_alias))
    ELSE get_index_for_named(sch, schema_column.name)

\* serde_json::Map::insert: the value under the key is replaced
MapInsert(map, key, value) ==
    [k \in DOMAIN map \cup {key} |-> IF k = key THEN value ELSE map[k]]

\* the inner loop of to_json from schema column i on: the object of the row,
\* or the abort of unwrap on None
RECURSIVE to_json_row(_, _, _, _)
to_json_row(row, sch, i, output_row) ==
    IF i > Len(sch) THEN OkValue(output_row)
    ELSE LET index == JsonIndex(sch, sch[i])
         IN  IF index = 0 \/ index > Len(row) THEN ErrValue("panic", NoColumn)
             ELSE to_json_row(row, sch, i + 1,
                              MapInsert(output_row, SchemaColumnDisplay(sch[i]), row[index]))

\* QueryStep::to_json: the array of the objects of the rows
to_json(sch, rows) ==
    LET objects == [r \in DOMAIN rows |-> to_json_row(rows[r], sch, 1, << >>)]
    IN  IF \E r \in DOMAIN rows : objects[r].status # "ok" THEN ErrValue("panic", NoColumn)
        ELSE OkValue([r \in DOMAIN rows |-> objects[r].value])

(***************************************************************************)
(* query/from.rs                                                           *)
(***************************************************************************)
\* Some(items), or None (the empty set) where the code panics on a raw row
\* that lacks a declared column
into_row(raw, columns) ==
    IF \A i \in DOMAIN columns : columns[i].name \in DOMAIN raw
    THEN {[i \in DOMAIN columns |-> raw[columns[i].name]]}
    ELSE {}

table_scan(table_name, table_alias) ==
    LET columns == [i \in DOMAIN schema(table_name) |->
                        SchemaColumnColumn(Column(schema(table_name)[i], table_alias))]
        raw == raw_rows_for_table(table_name)
    IN  IF \E i \in DOMAIN raw : into_row(raw[i], columns) = {}
        THEN Panic
        ELSE QueryStep(columns,
                       [i \in DOMAIN raw |-> CHOOSE r \in into_row(raw[i], columns) : TRUE],
                       Len(raw))

\* The body keeps every raw row: the step that would "get only relevant rows
\* from `raw`" is a comment without code, and index and values are not read.
index_scan(table_name, table_alias, index, values) ==
    LET columns == [i \in DOMAIN schema(table_name) |->
                        SchemaColumnColumn(Column(schema(table_name)[i], table_alias))]
        raw == raw_rows_for_table(table_name)
    IN  IF \E i \in DOMAIN raw : into_row(raw[i], columns) = {}
        THEN Panic
        ELSE QueryStep(columns,
                       [i \in DOMAIN raw |-> CHOOSE r \in into_row(raw[i], columns) : TRUE],
                       Len(raw))

(***************************************************************************)
(* Expressions (types.rs Expr) and their evaluation (query/filter.rs).     *)
(***************************************************************************)
ColumnExpr(column) == [column |-> column, tag |-> "Column"]
Literal(literal) == [literal |-> literal, tag |-> "Literal"]
BinaryOperation(left, op, right) ==
    [left |-> left, op |-> op, right |-> right, tag |-> "BinaryOperation"]
Nested(expr) == [expr |-> expr, tag |-> "Nested"]
FunctionCall(function_name, args) ==
    [args |-> args, function_name |-> function_name, tag |-> "FunctionCall"]

\* as_int that takes a boolean for the integer 0 or 1
as_intOfBool(value) ==
    IF value.kind \in {"int", "bool"} THEN OkValue(value) ELSE ErrValue("ExpectedInt", NoColumn)

\* serde_json::Value::as_i64
as_int(value) ==
    IF value.kind = "int" THEN OkValue(value) ELSE ErrValue("ExpectedInt", NoColumn)

match_op(value, op, literal) ==
    IF op = "Equals" THEN OkValue(BoolV(value = literal))
    ELSE IF as_int(value).status # "ok" THEN as_int(value)
    ELSE IF as_int(literal).status # "ok" THEN as_int(literal)
    ELSE LET left == value.n
             right == literal.n
         IN  CASE op = "GreaterThan" -> OkValue(BoolV(left > right))
               [] op = "GreaterThanOrEqual" -> OkValue(BoolV(left >= right))
               [] op = "LessThan" -> OkValue(BoolV(left < right))
               [] op = "LessThanOrEqual" -> OkValue(BoolV(left <= right))
               [] op = "Add" -> OkValue(IntV(left + right))
               [] op = "Subtract" -> OkValue(IntV(left - right))

RECURSIVE evaluate_expr(_, _, _)
evaluate_expr(row, sch, expr) ==
    CASE expr.tag = "BinaryOperation" ->
            LET left == evaluate_expr(row, sch, expr.left)
            IN  IF left.status # "ok" THEN left
                ELSE LET right == evaluate_expr(row, sch, expr.right)
                     IN  IF right.status # "ok" THEN right
                         ELSE match_op(left.value, expr.op, right.value)
      [] expr.tag = "Column" ->
            LET found == get_column(row, expr.column, sch)
            IN  IF found = {} THEN ErrValue("ColumnNotFoundInSchema", expr.column)
                ELSE OkValue(CHOOSE v \in found : TRUE)
      [] expr.tag = "Literal" -> OkValue(expr.literal)
      [] expr.tag = "Nested" -> evaluate_expr(row, sch, expr.expr)
      [] expr.tag = "FunctionCall" -> ErrValue("panic", NoColumn)

\* apply_predicate that takes a value that is no boolean for false
apply_predicateLenient(row, sch, where_expr) ==
    LET v == evaluate_expr(row, sch, where_expr)
    IN  IF v.status # "ok" THEN v
        ELSE IF v.value.kind = "bool" THEN v
        ELSE OkValue(BoolV(FALSE))

\* Result<bool, QueryError>: the value is the boolean as a Value
apply_predicate(row, sch, where_expr) ==
    LET v == evaluate_expr(row, sch, where_expr)
    IN  IF v.status # "ok" THEN v
        ELSE IF v.value.kind = "bool" THEN v
        ELSE ErrValue("FilterError(ExpectedBooleanType)", NoColumn)

\* a sum that leaves out the last row
RECURSIVE SumFromButLast(_, _, _, _, _)
SumFromButLast(all_rows, sch, expr, i, total) ==
    IF i >= Len(all_rows) THEN OkValue(IntV(total))
    ELSE LET value == evaluate_expr(all_rows[i], sch, expr)
         IN  IF value.status # "ok" THEN value
             ELSE IF value.value.kind = "int"
                  THEN SumFromButLast(all_rows, sch, expr, i + 1, total + value.value.n)
                  ELSE ErrValue("TypeMismatch", NoColumn)

\* try_fold of evaluate_function_call for sum, over the rows from position i
RECURSIVE SumFrom(_, _, _, _, _)
SumFrom(all_rows, sch, expr, i, total) ==
    IF i > Len(all_rows) THEN OkValue(IntV(total))
    ELSE LET value == evaluate_expr(all_rows[i], sch, expr)
         IN  IF value.status # "ok" THEN value
             ELSE IF value.value.kind = "int"
                  THEN SumFrom(all_rows, sch, expr, i + 1, total + value.value.n)
                  ELSE ErrValue("TypeMismatch", NoColumn)

evaluate_function_call(function_name, args, all_rows, sch) ==
    IF Len(args) = 0 THEN ErrValue("ArgumentNotFound", NoColumn)
    ELSE SumFrom(all_rows, sch, args[1], 1, 0)

RECURSIVE evaluate_aggregate_expr(_, _, _)
evaluate_aggregate_expr(all_rows, sch, expr) ==
    CASE expr.tag = "BinaryOperation" ->
            LET left == evaluate_aggregate_expr(all_rows, sch, expr.left)
            IN  IF left.status # "ok" THEN left
                ELSE LET right == evaluate_aggregate_expr(all_rows, sch, expr.right)
                     IN  IF right.status # "ok" THEN right
                         ELSE match_op(left.value, expr.op, right.value)
      [] expr.tag = "Column" -> ErrValue("panic", NoColumn)
      [] expr.tag = "Literal" -> OkValue(expr.literal)
      [] expr.tag = "Nested" -> evaluate_aggregate_expr(all_rows, sch, expr.expr)
      [] expr.tag = "FunctionCall" ->
            evaluate_function_call(expr.function_name, expr.args, all_rows, sch)

(***************************************************************************)
(* query/project.rs                                                        *)
(***************************************************************************)
\* Display of serde_json::Value, of Op and of FunctionName
ValueDisplay(v) ==
    CASE v.kind = "null" -> "null"
      [] v.kind = "bool" -> IF v.n = 1 THEN "true" ELSE "false"
      [] v.kind = "int" -> ToString(v.n)
      [] v.kind = "str" -> "\"" \o v.s \o "\""

OpDisplay(op) ==
    CASE op = "Equals" -> "equals"
      [] op = "GreaterThan" -> "greater_than"
      [] op = "GreaterThanOrEqual" -> "greater_than_or_equal"
      [] op = "LessThan" -> "less_than"
      [] op = "LessThanOrEqual" -> "less_than_or_equal"
      [] op = "Add" -> "add"
      [] op = "Subtract" -> "subtract"

\* Result<SchemaColumn, QueryError>
RECURSIVE index_for_expr(_, _)
index_for_expr(field, sch) ==
    CASE field.tag = "Column" ->
            LET index == get_index_for_column(sch, field.column)
            IN  IF index = 0
                THEN [column |-> field.column, status |-> "ColumnNotFoundInSchema",
                      value |-> SchemaColumnNamed("")]
                ELSE [column |-> NoColumn, status |-> "ok", value |-> sch[index]]
      [] field.tag = "Literal" ->
            [column |-> NoColumn, status |-> "ok",
             value |-> SchemaColumnNamed(ValueDisplay(field.literal))]
      [] field.tag = "BinaryOperation" ->
            [column |-> NoColumn, status |-> "ok",
             value |-> SchemaColumnNamed(OpDisplay(field.op))]
      [] field.tag = "Nested" -> index_for_expr(field.expr, sch)
      [] field.tag = "FunctionCall" ->
            [column |-> NoColumn, status |-> "ok",
             value |-> SchemaColumnNamed(field.function_name)]

\* Result<Schema, QueryError>, as a QueryStep without rows
collect_schema(columns) ==
    LET bad == FirstIndex(columns, LAMBDA c : c.status # "ok")
    IN  IF bad # 0
        THEN QueryError(columns[bad].status, columns[bad].column)
        ELSE QueryStep([i \in DOMAIN columns |-> columns[i].value], << >>, 0)

project_schema(sch, fields) ==
    collect_schema([i \in DOMAIN fields |-> index_for_expr(fields[i], sch)])

RECURSIVE is_aggregate_expr(_)
is_aggregate_expr(expr) ==
    CASE expr.tag = "Column" -> FALSE
      [] expr.tag = "Literal" -> FALSE
      [] expr.tag = "BinaryOperation" ->
            is_aggregate_expr(expr.left) \/ is_aggregate_expr(expr.right)
      [] expr.tag = "Nested" -> is_aggregate_expr(expr.expr)
      [] expr.tag = "FunctionCall" -> TRUE

\* the value of field index of the output row: the stored aggregate, or the
\* field evaluated on this row
FieldValue(row, sch, fields, aggregate_results, index) ==
    IF index \in DOMAIN aggregate_results
    THEN OkValue(aggregate_results[index])
    ELSE evaluate_expr(row, sch, fields[index])

\* the items pushed up to the first field that fails: Result<Row, QueryError>,
\* the row in value
collect_row(items) ==
    LET bad == FirstIndex(items, LAMBDA item : item.status # "ok")
    IN  IF bad # 0 THEN items[bad]
        ELSE OkValue([i \in DOMAIN items |-> items[i].value])

project_field_row(row, sch, fields, aggregate_results) ==
    collect_row([i \in DOMAIN fields |->
                    FieldValue(row, sch, fields, aggregate_results, i)])

\* OnlyAggregates with > for ==: the single row of totals is never chosen
OnlyAggregatesStrict(aggregate_results, fields) ==
    Cardinality(DOMAIN aggregate_results) > Len(fields)

\* true when the projection answers with the single row of totals
OnlyAggregates(aggregate_results, fields) ==
    Cardinality(DOMAIN aggregate_results) = Len(fields)

\* the per-row loop without its increment of the cost
collect_rowsUncounted(projected_rows, cost) ==
    LET bad == FirstIndex(projected_rows, LAMBDA r : r.status # "ok")
    IN  IF bad # 0
        THEN QueryError(projected_rows[bad].status, projected_rows[bad].column)
        ELSE QueryStep(<< >>, [i \in DOMAIN projected_rows |-> projected_rows[i].value],
                       cost)

\* the rows pushed up to the first row that fails, every row counted
collect_rows(projected_rows, cost) ==
    LET bad == FirstIndex(projected_rows, LAMBDA r : r.status # "ok")
    IN  IF bad # 0
        THEN QueryError(projected_rows[bad].status, projected_rows[bad].column)
        ELSE QueryStep(<< >>, [i \in DOMAIN projected_rows |-> projected_rows[i].value],
                       cost + Len(projected_rows))

\* project_fields once the aggregate fields are evaluated: aggregated maps
\* the index of every aggregate field to its Result
project_aggregated(rows, sch, fields, cost, aggregated) ==
    LET failed == {i \in DOMAIN aggregated : aggregated[i].status # "ok"}
        aggregate_results == [i \in DOMAIN aggregated |-> aggregated[i].value]
    IN  IF failed # {}
        THEN LET first == CHOOSE i \in failed : \A j \in failed : i <= j
             IN  QueryError(aggregated[first].status, aggregated[first].column)
        ELSE IF OnlyAggregates(aggregate_results, fields)
        THEN QueryStep(<< >>, << [i \in DOMAIN fields |-> aggregate_results[i]] >>, cost)
        ELSE collect_rows([i \in DOMAIN rows |->
                              project_field_row(rows[i], sch, fields, aggregate_results)],
                          cost)

\* Result<Vec<Row>, QueryError> and the cost after the call, as a QueryStep
\* whose schema is not used
project_fields(rows, sch, fields, cost) ==
    project_aggregated(rows, sch, fields, cost,
                       [i \in {j \in DOMAIN fields : is_aggregate_expr(fields[j])} |->
                           evaluate_aggregate_expr(rows, sch, fields[i])])

(***************************************************************************)
(* query/join.rs                                                           *)
(***************************************************************************)
\* An injective numbering of the values: what a hash without collisions sees.
ValueCode(v) ==
    CASE v.kind = "null" -> 0
      [] v.kind = "bool" -> 1 + v.n
      [] v.kind = "int" -> 3 + 2 * (IF v.n >= 0 THEN 2 * v.n ELSE -2 * v.n - 1)
      [] v.kind = "str" -> 4 + 2 * StrRank(v.s)

\* DefaultHasher on a Value: a fixed function into u64 of which the code
\* knows no more than determinism.  hasher = 0 is a hash without collisions
\* on the values at hand, hasher = m > 0 one that leaves m hash values.
calculate_hash(v) ==
    IF hasher = 0 THEN ValueCode(v) ELSE ValueCode(v) % hasher

Key(row, column, sch) == CHOOSE v \in get_column(row, column, sch) : TRUE

\* stuff.get(&hash) after the build and probe loops: the right rows, in
\* right order, whose key hashes to the hash of this left row's key
Bucket(left_row, left_schema, right_rows, right_schema, on) ==
    SelectSeq(right_rows,
              LAMBDA right_row :
                  calculate_hash(Key(right_row, on.right, right_schema))
                      = calculate_hash(Key(left_row, on.left, left_schema)))

\* Nulls padding one column too few
NullsShort(n) == [i \in 1..(n - 1) |-> Null]

\* the null items a left outer join pads an unmatched left row with
Nulls(n) == [i \in 1..n |-> Null]

\* the rows the emit loop pushes for one left row
Emit(left_row, rhs, right_schema, join_type) ==
    IF rhs = << >>
    THEN IF join_type = "LeftOuter"
         THEN << left_row \o Nulls(Len(right_schema)) >>
         ELSE << >>
    ELSE [i \in DOMAIN rhs |-> left_row \o rhs[i]]

RECURSIVE EmitAll(_, _, _, _, _, _, _)
EmitAll(left_rows, left_schema, right_rows, right_schema, on, join_type, i) ==
    IF i > Len(left_rows) THEN << >>
    ELSE Emit(left_rows[i],
              Bucket(left_rows[i], left_schema, right_rows, right_schema, on),
              right_schema, join_type)
         \o EmitAll(left_rows, left_schema, right_rows, right_schema, on, join_type, i + 1)

\* JoinCost without the increments of the emit loop
JoinCostNoEmit(left_rows, right_rows) == Len(left_rows) + Len(right_rows)

\* the increments of the build, probe and emit loops
JoinCost(left_rows, right_rows) == Len(left_rows) + Len(right_rows) + Len(left_rows)

hash_join(left_rows, left_schema, right_rows, right_schema, on, join_type, cost) ==
    IF \E i \in DOMAIN left_rows : get_column(left_rows[i], on.left, left_schema) = {}
    THEN QueryError("ColumnNotFoundInSchema", on.left)
    ELSE IF \E i \in DOMAIN right_rows : get_column(right_rows[i], on.right, right_schema) = {}
    THEN QueryError("ColumnNotFoundInSchema", on.right)
    ELSE QueryStep(left_schema \o right_schema,
                   EmitAll(left_rows, left_schema, right_rows, right_schema, on, join_type, 1),
                   cost + JoinCost(left_rows, right_rows))

(***************************************************************************)
(* query/order_by.rs                                                       *)
(***************************************************************************)
OrderByExpr(column, order) == [column |-> column, order |-> order]

Cmp(a, b) == IF a < b THEN "Less" ELSE IF a > b THEN "Greater" ELSE "Equal"

\* flip that reverses ties as well
flipTies(ordering) ==
    CASE ordering = "Equal" -> "Less"
      [] ordering = "Less" -> "Greater"
      [] ordering = "Greater" -> "Less"
      [] OTHER -> ordering

flip(ordering) ==
    CASE ordering = "Equal" -> "Equal"
      [] ordering = "Less" -> "Greater"
      [] ordering = "Greater" -> "Less"
      [] OTHER -> ordering

\* todo!("Unsupported ordering") aborts: "panic"
\* twice the number: Number::as_f64 of an integer i is i, that of FloatV(i)
\* is i + 0.5
TwiceAsF64(v) == IF v.kind = "float" THEN 2 * v.n + 1 ELSE 2 * v.n

\* Number against Number: as_i64 of both, else as_f64 of both and total_cmp
compare_values(a, b) ==
    CASE a.kind = "null" /\ b.kind = "null" -> "Equal"
      [] a.kind = "bool" /\ b.kind = "bool" -> Cmp(a.n, b.n)
      [] a.kind = "int" /\ b.kind = "int" -> Cmp(a.n, b.n)
      [] a.kind \in {"int", "float"} /\ b.kind \in {"int", "float"} ->
            Cmp(TwiceAsF64(a), TwiceAsF64(b))
      [] a.kind = "str" /\ b.kind = "str" -> Cmp(StrRank(a.s), StrRank(b.s))
      [] OTHER -> "panic"

\* the closure given to sort_by: the fold over the keys, from key i on
RECURSIVE compare_rows(_, _, _, _, _, _)
compare_rows(row_a, row_b, sch, order_by_exprs, i, ordering) ==
    IF i > Len(order_by_exprs) THEN ordering
    ELSE IF ordering = "Equal"
    THEN LET a == get_column(row_a, order_by_exprs[i].column, sch)
             b == get_column(row_b, order_by_exprs[i].column, sch)
         IN  IF a = {} \/ b = {} THEN "panic"
             ELSE LET o == compare_values(CHOOSE v \in a : TRUE, CHOOSE v \in b : TRUE)
                  IN  compare_rows(row_a, row_b, sch, order_by_exprs, i + 1,
                                   IF order_by_exprs[i].order = "Asc" THEN o ELSE flip(o))
    ELSE IF ordering = "panic" THEN "panic"
    ELSE compare_rows(row_a, row_b, sch, order_by_exprs, i + 1, ordering)

\* a sort that never moves a row
is_lessNever(ordering) == FALSE

\* sort_by moves the tail left while it is less than its neighbour
is_less(ordering) == ordering = "Less"

\* slice::sort_by on a short slice is an insertion sort: the element x is
\* inserted into the sorted prefix from its right end.  The result carries
\* the rows, the comparisons made so far (cost) and whether one aborted.
RECURSIVE insert_tail(_, _, _, _, _)
insert_tail(prefix, x, sch, order_by_exprs, cost) ==
    IF prefix = << >> THEN [cost |-> cost, rows |-> << x >>, status |-> "ok"]
    ELSE LET last == prefix[Len(prefix)]
             o == compare_rows(x, last, sch, order_by_exprs, 1, "Equal")
         IN  IF o = "panic" THEN [cost |-> cost + 1, rows |-> << >>, status |-> "panic"]
             ELSE IF is_less(o)
             THEN LET r == insert_tail(SubSeq(prefix, 1, Len(prefix) - 1), x, sch,
                                       order_by_exprs, cost + 1)
                  IN  IF r.status # "ok" THEN r
                      ELSE [r EXCEPT !.rows = Append(r.rows, last)]
             ELSE [cost |-> cost + 1, rows |-> Append(prefix, x), status |-> "ok"]

RECURSIVE insertion_sort(_, _, _, _, _, _)
insertion_sort(rows, sorted, i, sch, order_by_exprs, cost) ==
    IF i > Len(rows) THEN [cost |-> cost, rows |-> sorted, status |-> "ok"]
    ELSE LET r == insert_tail(sorted, rows[i], sch, order_by_exprs, cost)
         IN  IF r.status # "ok" THEN r
             ELSE insertion_sort(rows, r.rows, i + 1, sch, order_by_exprs, r.cost)

\* the sorted rows and the cost after the call; Panic where a comparison aborts
order_by(rows, sch, order_by_exprs, cost) ==
    LET r == insertion_sort(rows, << >>, 1, sch, order_by_exprs, cost)
    IN  IF r.status # "ok" THEN Panic ELSE QueryStep(sch, r.rows, r.cost)

(***************************************************************************)
(* query.rs: the arms of run_physical_plan, each on the results of the     *)
(* children.  An error of a child is returned as it is (the ? operator).   *)
(***************************************************************************)
\* a Filter loop that drops the rows on which the predicate fails
RECURSIVE filter_loopSkipErrors(_, _, _, _, _)
filter_loopSkipErrors(rows, sch, filter, i, filtered_rows) ==
    IF i > Len(rows) THEN [column |-> NoColumn, status |-> "ok", value |-> filtered_rows]
    ELSE LET keep == apply_predicate(rows[i], sch, filter)
         IN  filter_loopSkipErrors(rows, sch, filter, i + 1,
                                   IF keep.status = "ok" /\ keep.value = BoolV(TRUE)
                                   THEN Append(filtered_rows, rows[i])
                                   ELSE filtered_rows)

\* a Filter loop that keeps every row on which the predicate has a value
RECURSIVE filter_loopKeepAll(_, _, _, _, _)
filter_loopKeepAll(rows, sch, filter, i, filtered_rows) ==
    IF i > Len(rows) THEN [column |-> NoColumn, status |-> "ok", value |-> filtered_rows]
    ELSE LET keep == apply_predicate(rows[i], sch, filter)
         IN  IF keep.status # "ok" THEN keep
             ELSE filter_loopKeepAll(rows, sch, filter, i + 1, Append(filtered_rows, rows[i]))

\* the Filter loop from row i on: kept rows so far, or the first error
RECURSIVE filter_loop(_, _, _, _, _)
filter_loop(rows, sch, filter, i, filtered_rows) ==
    IF i > Len(rows) THEN [column |-> NoColumn, status |-> "ok", value |-> filtered_rows]
    ELSE LET keep == apply_predicate(rows[i], sch, filter)
         IN  IF keep.status # "ok" THEN keep
             ELSE filter_loop(rows, sch, filter, i + 1,
                              IF keep.value = BoolV(TRUE)
                              THEN Append(filtered_rows, rows[i])
                              ELSE filtered_rows)

\* cost.increment_rows_processed() of the Filter loop, once per child row
FilterCost(rows) == Len(rows)

RunFilter(from, filter) ==
    IF from.status # "ok" THEN from
    ELSE LET r == filter_loop(from.rows, from.schema, filter, 1, << >>)
         IN  IF r.status # "ok" THEN QueryError(r.status, r.column)
             ELSE QueryStep(from.schema, r.value, from.cost + FilterCost(from.rows))

\* the QueryStep of the Project arm, or the first error
project_step(projected, sch) ==
    IF projected.status # "ok" THEN projected
    ELSE IF sch.status # "ok" THEN sch
    ELSE QueryStep(sch.schema, projected.rows, projected.cost)

\* The loop of the arm counts every child row; project_fields (project.rs)
\* takes all the rows at once and counts on its own.
RunProject(from, fields) ==
    IF from.status # "ok" THEN from
    ELSE project_step(project_fields(from.rows, from.schema, fields,
                                     from.cost + Len(from.rows)),
                      project_schema(from.schema, fields))

\* truncate keeping one row more
truncateOneMore(rows, size) == SubSeq(rows, 1, Min(size + 1, Len(rows)))

\* Vec::truncate
truncate(rows, size) == SubSeq(rows, 1, Min(size, Len(rows)))

RunLimit(from, limit) ==
    IF from.status # "ok" THEN from
    ELSE QueryStep(from.schema, truncate(from.rows, limit), from.cost)

RunJoin(left_from, right_from, join_type, on) ==
    IF left_from.status # "ok" THEN left_from
    ELSE IF right_from.status # "ok" THEN right_from
    ELSE hash_join(left_from.rows, left_from.schema, right_from.rows, right_from.schema,
                   on, join_type, left_from.cost + right_from.cost)

(***************************************************************************)
(* Plans (types.rs).  Logical plans have From leaves, physical plans       *)
(* TableScan and IndexScan leaves; the other nodes are shared.             *)
(***************************************************************************)
From(table_name, table_alias) ==
    [node |-> "From", table_alias |-> table_alias, table_name |-> table_name]
TableScan(table_name, table_alias) ==
    [node |-> "TableScan", table_alias |-> table_alias, table_name |-> table_name]
IndexScan(table_name, table_alias, index, values) ==
    [index |-> index, node |-> "IndexScan", table_alias |-> table_alias,
     table_name |-> table_name, values |-> values]
Filter(from, filter) == [filter |-> filter, from |-> from, node |-> "Filter"]
Project(from, fields) == [fields |-> fields, from |-> from, node |-> "Project"]
Limit(from, limit) == [from |-> from, limit |-> limit, node |-> "Limit"]
OrderBy(from, order_by_exprs) ==
    [from |-> from, node |-> "OrderBy", order_by_exprs |-> order_by_exprs]
Join(join_type, left_from, right_from, on) ==
    [join_type |-> join_type, left_from |-> left_from, node |-> "Join",
     on |-> on, right_from |-> right_from]
JoinOn(left, right) == [left |-> left, right |-> right]

NoPlan == [node |-> "None"]

(***************************************************************************)
(* indexes.rs and Catalog::construct_indexes                               *)
(***************************************************************************)
\* an injective numbering of arrays of values
RECURSIVE ArrayCode(_)
ArrayCode(values) ==
    IF values = << >> THEN 1
    ELSE 2 + ValueCode(values[Len(values)])
           + 64 * ArrayCode(SubSeq(values, 1, Len(values) - 1))

\* calculate_hash(&serde_json::Value::Array(values)), see calculate_hash
calculate_hash_array(values) ==
    IF hasher = 0 THEN ArrayCode(values) ELSE ArrayCode(values) % hasher

\* a key that leaves the missing columns out
IndexKeyWithoutMissing(index, row) ==
    LET present == SelectSeq(index.columns, LAMBDA c : c \in DOMAIN row)
    IN  [c \in DOMAIN present |-> row[present[c]]]

\* the key of a raw row on the columns of the index: a missing column is null
IndexKey(index, row) ==
    [c \in DOMAIN index.columns |->
        IF index.columns[c] \in DOMAIN row THEN row[index.columns[c]] ELSE Null]

\* an index whose buckets keep the first position only
construct_indexFirstOnly(index, rows) ==
    LET hashes == {calculate_hash_array(IndexKey(index, rows[i])) : i \in DOMAIN rows}
        positions == [i \in DOMAIN rows |-> i - 1]
    IN  [h \in hashes |->
            << Head(SelectSeq(positions,
                      LAMBDA p : calculate_hash_array(IndexKey(index, rows[p + 1])) = h)) >>]

\* ConstructedIndex.items: hash -> positions (0-based), in insertion order
construct_index(index, rows) ==
    LET hashes == {calculate_hash_array(IndexKey(index, rows[i])) : i \in DOMAIN rows}
        positions == [i \in DOMAIN rows |-> i - 1]
    IN  [h \in hashes |->
            SelectSeq(positions,
                      LAMBDA p : calculate_hash_array(IndexKey(index, rows[p + 1])) = h)]

\* ConstructedIndexes.indexes: for every table its (Index, ConstructedIndex) pairs
construct_indexes ==
    [t \in TableNames |->
        [i \in DOMAIN get_static_catalog[t].indexes |->
            [constructed |-> construct_index(get_static_catalog[t].indexes[i],
                                raw_rows_for_table(get_static_catalog[t].indexes[i].table_name)),
             index |-> get_static_catalog[t].indexes[i]]]]

(***************************************************************************)
(* query/to_physical_plan.rs                                               *)
(***************************************************************************)
\* Expr::ColumnComparison { column, op, literal } of the planner is the
\* comparison of a column (left) with a literal (right)
IsColumnComparison(expr) ==
    /\ expr.tag = "BinaryOperation"
    /\ expr.left.tag = "Column"
    /\ expr.right.tag = "Literal"

EmptyMap == [c \in {} |-> Null]

\* columns_in_filter that binds the column of every comparison, whatever its op
columns_in_filterAnyOp(expr) ==
    IF IsColumnComparison(expr)
    THEN [c \in {expr.left.column.name} |-> expr.right.literal]
    ELSE EmptyMap

\* BTreeMap<&ColumnName, FilterValue>: column name -> literal
columns_in_filter(expr) ==
    IF IsColumnComparison(expr) /\ expr.op = "Equals"
    THEN [c \in {expr.left.column.name} |-> expr.right.literal]
    ELSE EmptyMap

\* Option<(&Index, Vec<Value>)> as a set: empty is None
find_index(indexes, table_name, filter_columns) ==
    IF table_name \notin DOMAIN indexes THEN {}
    ELSE LET indexes_for_table == indexes[table_name]
             Covered(entry) ==
                 \A c \in DOMAIN entry.index.columns :
                     entry.index.columns[c] \in DOMAIN filter_columns
             first == FirstIndex(indexes_for_table, Covered)
         IN  IF first = 0 THEN {}
             ELSE LET index == indexes_for_table[first].index
                  IN  {[index |-> index,
                        values |-> << [c \in DOMAIN index.columns |->
                                          filter_columns[index.columns[c]]] >>]}

RECURSIVE to_physical_plan(_, _)
filter_to_physical_plan(plan, indexes) ==
    IF plan.from.node = "From"
    THEN LET filter_columns == columns_in_filter(plan.filter)
             found == find_index(indexes, plan.from.table_name, filter_columns)
         IN  IF found # {}
             THEN LET f == CHOOSE f \in found : TRUE
                  IN  IndexScan(plan.from.table_name, plan.from.table_alias,
                                f.index, f.values)
             ELSE Filter(to_physical_plan(plan.from, indexes), plan.filter)
    ELSE Filter(to_physical_plan(plan.from, indexes), plan.filter)

to_physical_plan(logical_plan, indexes) ==
    CASE logical_plan.node = "From" ->
            TableScan(logical_plan.table_name, logical_plan.table_alias)
      [] logical_plan.node = "Filter" -> filter_to_physical_plan(logical_plan, indexes)
      [] logical_plan.node = "Join" ->
            Join(logical_plan.join_type,
                 to_physical_plan(logical_plan.left_from, indexes),
                 to_physical_plan(logical_plan.right_from, indexes),
                 logical_plan.on)
      [] logical_plan.node = "Limit" ->
            Limit(to_physical_plan(logical_plan.from, indexes), logical_plan.limit)
      [] logical_plan.node = "Project" ->
            Project(to_physical_plan(logical_plan.from, indexes), logical_plan.fields)

(***************************************************************************)
(* query.rs: run_physical_plan and run_query                               *)
(***************************************************************************)
RECURSIVE run_physical_plan(_)
run_physical_plan(plan) ==
    CASE plan.node = "TableScan" -> table_scan(plan.table_name, plan.table_alias)
      [] plan.node = "IndexScan" ->
            index_scan(plan.table_name, plan.table_alias, plan.index, plan.values)
      [] plan.node = "Filter" -> RunFilter(run_physical_plan(plan.from), plan.filter)
      [] plan.node = "Project" -> RunProject(run_physical_plan(plan.from), plan.fields)
      [] plan.node = "Limit" -> RunLimit(run_physical_plan(plan.from), plan.limit)
      [] plan.node = "Join" ->
            RunJoin(run_physical_plan(plan.left_from), run_physical_plan(plan.right_from),
                    plan.join_type, plan.on)

run_query(q, constructed_indexes) ==
    run_physical_plan(to_physical_plan(q, constructed_indexes))

(***************************************************************************)
(* parser.rs: the adapter from the AST of a query (sqlparser's ast::Query   *)
(* with its Select) to the logical plan.  An Option is a set: empty for     *)
(* None, a singleton for Some.  An AST query is                             *)
(*   [distinct, from, limit_clause, order_by, projection, selection]        *)
(* where from is a sequence of [joins, relation], a relation is             *)
(* [alias, name], a join is [constraint, join_operator, relation] with the  *)
(* identifier after ON as constraint, a select item is [expr, kind] and an  *)
(* ORDER BY expression is [asc, expr].                                      *)
(***************************************************************************)
from_relation(table) == From(table.name, table.alias)

from_join(join, q) ==
    IF join.join_operator \notin {"Join", "LeftOuter"}
    THEN ErrValue("Join(UnsupportedJoinOperator)", NoColumn)
    ELSE OkValue(Join(IF join.join_operator = "Join" THEN "Inner" ELSE "LeftOuter",
                      q, from_relation(join.relation),
                      JoinOn(join.constraint,
                             Column(join.constraint.name, join.relation.alias))))

\* try_fold of from_join over the joins from position i on
RECURSIVE fold_joins(_, _, _)
fold_joins(joins, i, q) ==
    IF i > Len(joins) THEN OkValue(q)
    ELSE LET joined == from_join(joins[i], q)
         IN  IF joined.status # "ok" THEN joined
             ELSE fold_joins(joins, i + 1, joined.value)

from_from(froms) ==
    IF froms = << >> THEN ErrValue("EmptyFromNotSupported", NoColumn)
    ELSE fold_joins(froms[1].joins, 1, from_relation(froms[1].relation))

\* Option<Vec<Column>>: None for the single wildcard
from_projection(select_items) ==
    IF Len(select_items) = 1 /\ select_items[1].kind = "Wildcard" THEN OkValue({})
    ELSE IF \E i \in DOMAIN select_items : select_items[i].kind # "UnnamedExpr"
    THEN ErrValue("UnsupportedProjectionField", NoColumn)
    ELSE OkValue({[i \in DOMAIN select_items |-> select_items[i].expr]})

\* Filter if there is a selection, on the plan of the FROM clause
with_selection(selection, q) ==
    IF selection = {} THEN q ELSE Filter(q, CHOOSE filter \in selection : TRUE)

\* Project if the projection is a field list
with_projection(fields, q) ==
    IF fields = {} THEN q ELSE Project(q, CHOOSE f \in fields : TRUE)

\* from_select that projects before it filters
from_selectProjectFirst(select) ==
    IF select.distinct THEN ErrValue("DistinctNotSupported", NoColumn)
    ELSE LET q == from_from(select.from)
             fields == from_projection(select.projection)
         IN  IF q.status # "ok" THEN q
             ELSE IF fields.status # "ok" THEN fields
             ELSE OkValue(with_selection(select.selection,
                                         with_projection(fields.value, q.value)))

from_select(select) ==
    IF select.distinct THEN ErrValue("DistinctNotSupported", NoColumn)
    ELSE LET q == from_from(select.from)
             fields == from_projection(select.projection)
         IN  IF q.status # "ok" THEN q
             ELSE IF fields.status # "ok" THEN fields
             ELSE OkValue(with_projection(fields.value,
                                          with_selection(select.selection, q.value)))

from_order_by(exprs) ==
    [i \in DOMAIN exprs |->
        OrderByExpr(exprs[i].expr,
                    IF exprs[i].asc = {} \/ exprs[i].asc = {TRUE}
                    THEN "Asc" ELSE "Desc")]

\* Result<Query, ParseError>: OrderBy if there is an ORDER BY clause, then
\* Limit if there is a LIMIT clause
from_query(ast) ==
    LET q == from_select(ast)
        ordered == IF ast.order_by = {} THEN q.value
                   ELSE OrderBy(q.value, from_order_by(CHOOSE o \in ast.order_by : TRUE))
    IN  IF q.status # "ok" THEN q
        ELSE IF ast.limit_clause = {} THEN OkValue(ordered)
        ELSE OkValue(Limit(ordered, CHOOSE limit \in ast.limit_clause : TRUE))

(***************************************************************************)
(* The inputs tried.                                                       *)
(***************************************************************************)
Aliases == {NoAlias, "a"}

Col(name) == ColumnExpr(Column(name, NoAlias))

Predicates ==
    { BinaryOperation(Col("animal_id"), "Equals", Literal(IntV(1))),
      BinaryOperation(Col("species_id"), "Equals", Literal(IntV(3))),
      BinaryOperation(Literal(IntV(1)), "Equals", Col("species_id")),
      BinaryOperation(Col("animal_name"), "Equals", Literal(StrV("horse"))),
      BinaryOperation(Col("species_id"), "GreaterThanOrEqual", Literal(IntV(2))),
      BinaryOperation(Col("animal_name"), "GreaterThan", Literal(IntV(1))) }

Sum(expr) == FunctionCall("sum", << expr >>)

FieldLists ==
    { << Col("species_id") >>,
      << Sum(Col("species_id")) >>,
      << Col("species_id"), Sum(Col("species_id")) >>,
      << Col("animal_name"), Literal(IntV(1)) >> }

OrderByLists ==
    { << OrderByExpr(Column("species_id", NoAlias), "Asc") >>,
      << OrderByExpr(Column("species_id", NoAlias), "Desc") >>,
      << OrderByExpr(Column("species_id", NoAlias), "Desc"),
         OrderByExpr(Column("animal_id", NoAlias), "Desc") >>,
      << OrderByExpr(Column("species_id", NoAlias), "Asc"),
         OrderByExpr(Column("animal_name", NoAlias), "Desc") >>,
      << OrderByExpr(Column("animal_name", NoAlias), "Asc") >> }

JoinOns ==
    { JoinOn(Column(l, NoAlias), Column("species_id", a)) :
        l \in {"species_id", "animal_id"}, a \in Aliases }

JoinTypes == {"Inner", "LeftOuter"}

ProbeValues == {IntV(1), IntV(3)}

HashFunctions == {0, HashMod}

(***************************************************************************)
(* The state machine.  A stack entry is a physical plan, the result of     *)
(* run_physical_plan on it and the results of its children.                *)
(***************************************************************************)
NoResult == QueryError("none", NoColumn)

Call(function_name, args) == [args |-> args, function_name |-> function_name]

NoCall == Call("none", << >>)

Entry(plan, step, inputs, size, logical) ==
    [inputs |-> inputs, logical |-> logical, plan |-> plan, size |-> size, step |-> step]

RECURSIVE Size(_)
Size(st) == IF st = << >> THEN 0 ELSE st[1].size + Size(Tail(st))

Top == stack[Len(stack)]

\* the logical plan that to_physical_plan maps to this plan when no index is used
RECURSIVE Logical(_)
Logical(plan) ==
    CASE plan.node = "TableScan" -> From(plan.table_name, plan.table_alias)
      [] plan.node = "Filter" -> Filter(Logical(plan.from), plan.filter)
      [] plan.node = "Project" -> Project(Logical(plan.from), plan.fields)
      [] plan.node = "Limit" -> Limit(Logical(plan.from), plan.limit)
      [] plan.node = "Join" ->
            Join(plan.join_type, Logical(plan.left_from), Logical(plan.right_from), plan.on)

Init ==
    /\ hasher \in HashFunctions
    /\ stack = << >>
    /\ query = NoPlan
    /\ physical_plan = NoPlan
    /\ result = NoResult
    /\ call = NoCall
    /\ returned = NoResult

Forget ==
    /\ query' = NoPlan
    /\ physical_plan' = NoPlan
    /\ result' = NoResult
    /\ UNCHANGED <<hasher, call, returned>>

Push(entry) ==
    /\ Len(stack) < 2
    /\ Size(stack) < MaxOps
    /\ stack' = Append(stack, entry)
    /\ Forget

Replace(entry) ==
    /\ stack # << >>
    /\ Size(stack) < MaxOps
    /\ stack' = [stack EXCEPT ![Len(stack)] = entry]
    /\ Forget

TableScanOp ==
    \E t \in TableNames, a \in Aliases :
        Push(Entry(TableScan(t, a), table_scan(t, a), << >>, 1, TRUE))

IndexScanOp ==
    \E t \in TableNames, v \in ProbeValues :
        \E i \in DOMAIN get_static_catalog[t].indexes :
            LET index == get_static_catalog[t].indexes[i]
            IN  Push(Entry(IndexScan(t, NoAlias, index, << << v >> >>),
                           index_scan(t, NoAlias, index, << << v >> >>),
                           << >>, 1, FALSE))

FilterOp ==
    \E filter \in Predicates :
        Replace(Entry(Filter(Top.plan, filter), RunFilter(Top.step, filter),
                      << Top.step >>, Top.size + 1, Top.logical))

ProjectOp ==
    \E fields \in FieldLists :
        Replace(Entry(Project(Top.plan, fields), RunProject(Top.step, fields),
                      << Top.step >>, Top.size + 1, Top.logical))

LimitOp ==
    \E limit \in 0..MaxLimit :
        Replace(Entry(Limit(Top.plan, limit), RunLimit(Top.step, limit),
                      << Top.step >>, Top.size + 1, Top.logical))

\* order_by on the rows of a child that has succeeded
OrderByOp ==
    /\ stack # << >>
    /\ Top.step.status = "ok"
    /\ \E order_by_exprs \in OrderByLists :
          Replace(Entry(OrderBy(Top.plan, order_by_exprs),
                        order_by(Top.step.rows, Top.step.schema, order_by_exprs,
                                 Top.step.cost),
                        << Top.step >>, Top.size + 1, FALSE))

JoinOp ==
    /\ Len(stack) = 2
    /\ Size(stack) < MaxOps
    /\ \E join_type \in JoinTypes, on \in JoinOns :
        stack' = << Entry(Join(join_type, stack[1].plan, stack[2].plan, on),
                          RunJoin(stack[1].step, stack[2].step, join_type, on),
                          << stack[1].step, stack[2].step >>,
                          stack[1].size + stack[2].size + 1,
                          stack[1].logical /\ stack[2].logical) >>
    /\ Forget

\* run_query on the logical plan of the finished plan
RunQuery ==
    /\ Len(stack) = 1
    /\ Top.logical
    /\ query = NoPlan
    /\ query' = Logical(Top.plan)
    /\ physical_plan' = to_physical_plan(query', construct_indexes)
    /\ result' = run_physical_plan(physical_plan')
    /\ UNCHANGED <<hasher, stack, call, returned>>

Next ==
    \/ TableScanOp
    \/ IndexScanOp
    \/ FilterOp
    \/ ProjectOp
    \/ LimitOp
    \/ OrderByOp
    \/ JoinOp
    \/ RunQuery

Spec == Init /\ [][Next]_vars

(***************************************************************************)
(* The functions of the crate applied on their own: the arguments are      *)
(* drawn at the start, and each action applies one function to them.       *)
(***************************************************************************)
ColA(name) == ColumnExpr(Column(name, "a"))

\* the predicates, and comparisons of the columns of a table aliased a
QueryPredicates ==
    Predicates \cup
    { BinaryOperation(ColA("species_id"), "GreaterThanOrEqual", Literal(IntV(1))),
      BinaryOperation(ColA("species_name"), "Equals", Literal(StrV("mammal"))) }

Froms == {From(t, a) : t \in TableNames, a \in Aliases}

\* one more operator on top of each of the plans
Wrap(plans) ==
    {Filter(p, filter) : p \in plans, filter \in QueryPredicates}
      \cup {Project(p, fields) : p \in plans, fields \in FieldLists}
      \cup {Limit(p, limit) : p \in plans, limit \in 0..MaxLimit}

JoinsOf(lefts, rights) ==
    {Join(join_type, l, r, on) :
        join_type \in JoinTypes, l \in lefts, r \in rights, on \in JoinOns}

\* logical plans of three to five nodes
Queries ==
    Wrap(Wrap(Froms)) \cup Wrap(JoinsOf(Froms, Froms)) \cup JoinsOf(Wrap(Froms), Froms)
      \cup JoinsOf(Froms, Wrap(Froms))

\* the values of rows: one of each kind of serde_json::Value the tables and
\* the joins produce, and a boolean
Items == {Null, BoolV(TRUE), IntV(1), StrV("horse")}

\* rows of two items, and at most two of them
ItemRows == {<< x, y >> : x \in Items, y \in Items}

RowLists == SeqsUpTo2(ItemRows)

\* schemas of two columns: different columns, the same column twice, the
\* same name under an alias, a Named column
Schemas ==
    { << SchemaColumnColumn(Column("animal_id", NoAlias)),
         SchemaColumnColumn(Column("species_id", NoAlias)) >>,
      << SchemaColumnColumn(Column("animal_id", NoAlias)),
         SchemaColumnColumn(Column("animal_id", NoAlias)) >>,
      << SchemaColumnColumn(Column("animal_id", "a")),
         SchemaColumnColumn(Column("animal_id", NoAlias)) >>,
      << SchemaColumnNamed("animal_id"),
         SchemaColumnColumn(Column("species_id", NoAlias)) >> }

\* results of a child operator
Steps == {QueryStep(sch, rows, Len(rows)) : sch \in Schemas, rows \in RowLists}

Ops ==
    {"Equals", "GreaterThan", "GreaterThanOrEqual", "LessThan", "LessThanOrEqual",
     "Add", "Subtract"}

\* predicates of a Filter: a column, a literal, a comparison or a sum of a
\* column and a literal, nested or not, and a sum over a column
FilterPredicates ==
    LET columns == {Col("animal_id"), Col("species_id"), Col("animal_name")}
        literals == {Literal(IntV(1)), Literal(BoolV(TRUE)), Literal(Null)}
        binary == {BinaryOperation(c, op, Literal(IntV(1))) : c \in columns, op \in Ops}
    IN  columns \cup literals \cup binary \cup {Nested(e) : e \in columns \cup binary}
          \cup {Sum(c) : c \in columns}

\* operands: two of each kind of value, and a number that is no integer
Operands ==
    {Null, BoolV(TRUE), BoolV(FALSE), IntV(1), IntV(2), StrV("horse"), StrV("dog"),
     FloatV(1)}

\* the column references of expressions: in the schemas once, twice, under
\* the alias only, or not at all
ColumnRefs ==
    {Column("animal_id", NoAlias), Column("animal_id", "a"),
     Column("species_id", NoAlias), Column("species_id", "a"),
     Column("animal_name", NoAlias)}

\* expressions: every operator on every two literal operands, and columns,
\* operators on a column and a literal, nested expressions, aggregate calls
Exprs ==
    LET columns == {ColumnExpr(c) : c \in ColumnRefs}
        one == Literal(IntV(1))
    IN  {BinaryOperation(Literal(a), op, Literal(b)) :
            a \in Operands, op \in Ops, b \in Operands}
          \cup columns
          \cup {BinaryOperation(c, op, one) : c \in columns, op \in Ops}
          \cup {BinaryOperation(one, op, c) : c \in columns, op \in Ops}
          \cup {Nested(c) : c \in columns}
          \cup {Sum(c) : c \in columns}
          \cup {Nested(Sum(c)) : c \in columns}
          \cup {BinaryOperation(Sum(c), op, one) : c \in columns, op \in Ops}
          \cup {BinaryOperation(one, op, Sum(c)) : c \in columns, op \in Ops}

\* the field lists of a Project: one or two fields, each a column, a
\* literal or an aggregate call
ProjectFieldLists ==
    SeqsUpTo2({ColumnExpr(c) : c \in ColumnRefs}
                \cup {Literal(IntV(1)), Sum(Col("animal_id")),
                      BinaryOperation(Sum(Col("animal_id")), "Add", Literal(IntV(1)))})
      \ {<< >>}

\* the values of the rows to sort: null, integers, a number that is no
\* integer, a string
SortItems == {Null, IntV(1), IntV(2), FloatV(1), StrV("horse")}

SortRowLists == SeqsUpTo2({<< x, y >> : x \in SortItems, y \in SortItems})

\* the schema of the rows to sort
SortSchema ==
    << SchemaColumnColumn(Column("animal_id", NoAlias)),
       SchemaColumnColumn(Column("species_id", NoAlias)) >>

\* one or two ordering keys, each a column of the schema, Asc or Desc
SortKeys ==
    SeqsUpTo2({OrderByExpr(Column(name, NoAlias), order) :
                  name \in {"animal_id", "species_id"}, order \in {"Asc", "Desc"}})
      \ {<< >>}

\* schemas of two columns for to_json: columns and Named columns of which
\* some print alike
JsonSchemas ==
    LET entries == {SchemaColumnColumn(Column("animal_id", NoAlias)),
                    SchemaColumnColumn(Column("animal_id", "a")),
                    SchemaColumnColumn(Column("species_id", NoAlias)),
                    SchemaColumnNamed("animal_id"),
                    SchemaColumnNamed("a.animal_id")}
    IN  {<< x, y >> : x \in entries, y \in entries}

\* raw rows (JSON objects): each of the two columns is missing, null or 1
RawRows ==
    LET optional == {"missing", "null", "1"}
        Object(a, s) ==
            [c \in {c \in {"animal_id", "species_id"} :
                        (c = "animal_id" /\ a # "missing") \/ (c = "species_id" /\ s # "missing")}
               |-> LET v == IF c = "animal_id" THEN a ELSE s
                   IN  IF v = "null" THEN Null ELSE IntV(1)]
    IN  {Object(a, s) : a \in optional, s \in optional}

\* at most MaxRows raw rows
RawRowLists == UNION {[1..n -> RawRows] : n \in 0..MaxRows}

\* indexes on one of the columns or on both, in either order
DeclaredIndexes ==
    {Index("animal", columns) :
        columns \in {<< "animal_id" >>, << "species_id" >>,
                     << "animal_id", "species_id" >>, << "species_id", "animal_id" >>}}

\* the queries given to the adapter.  relations: the tables of a FROM
\* clause, with or without the alias a; joins: JOIN, LEFT OUTER JOIN and a
\* join that is not supported, ON species_id; projections: `*`, one or two
\* columns, and a field list with a wildcard in it; clauses: no ORDER BY, or
\* one or two keys with ASC, DESC or neither
AstQueries ==
    LET relations == {[alias |-> a, name |-> t] : a \in Aliases, t \in TableNames}
        joins ==
            {[constraint |-> Column("species_id", NoAlias), join_operator |-> o,
              relation |-> r] :
                o \in {"Join", "LeftOuter", "CrossJoin"},
                r \in {[alias |-> NoAlias, name |-> "species"],
                       [alias |-> "a", name |-> "animal"]}}
        star == [expr |-> NoColumn, kind |-> "Wildcard"]
        animal_id == [expr |-> Column("animal_id", NoAlias), kind |-> "UnnamedExpr"]
        species_id == [expr |-> Column("species_id", "a"), kind |-> "UnnamedExpr"]
        projections ==
            {<< star >>, << animal_id >>, << animal_id, species_id >>, << animal_id, star >>}
        key(name, asc) == [asc |-> asc, expr |-> Column(name, NoAlias)]
        clauses ==
            {{}, {<< key("animal_id", {}) >>}, {<< key("animal_id", {FALSE}) >>},
             {<< key("species_id", {TRUE}), key("animal_id", {FALSE}) >>}}
    IN  {[distinct |-> d, from |-> << [joins |-> j, relation |-> r] >>, limit_clause |-> l,
          order_by |-> o, projection |-> p, selection |-> s] :
            d \in BOOLEAN, j \in SeqsUpTo2(joins), r \in relations,
            l \in {{}, {0}, {MaxLimit}}, o \in clauses, p \in projections,
            s \in {{}, {BinaryOperation(Col("species_id"), "Equals", Literal(IntV(3)))}}}

\* expressions for the aggregate mode: those of a Filter without a function
\* call, and a sum plus a column or a literal
AggregateModeExprs ==
    {e \in FilterPredicates : ~is_aggregate_expr(e)}
      \cup {BinaryOperation(Sum(Col("animal_id")), "Add", operand) :
               operand \in {Col("species_id"), Literal(IntV(1))}}

InitCalls ==
    /\ hasher \in HashFunctions
    /\ stack = << >>
    /\ query = NoPlan
    /\ physical_plan = NoPlan
    /\ result = NoResult
    /\ returned = NoResult
    /\ \/ \E q \in Queries : call = Call("run_query", << q >>)
       \/ \E row \in ItemRows, sch \in Schemas, where_expr \in FilterPredicates :
             call = Call("apply_predicate", << row, sch, where_expr >>)
       \/ \E from \in Steps, filter \in FilterPredicates :
             call = Call("Filter", << from, filter >>)
       \/ \E row \in ItemRows, sch \in Schemas, expr \in Exprs :
             call = Call("evaluate_expr", << row, sch, expr >>)
       \/ \E from \in Steps, fields \in ProjectFieldLists :
             call = Call("Project", << from, fields >>)
       \/ \E sch \in JsonSchemas, rows \in RowLists :
             call = Call("to_json", << QueryStep(sch, rows, Len(rows)) >>)
       \/ \E index \in DeclaredIndexes, rows \in RawRowLists :
             call = Call("construct_index", << index, rows >>)
       \/ \E ast \in AstQueries : call = Call("from_query", << ast >>)
       \/ \E all_rows \in RowLists, sch \in Schemas, expr \in AggregateModeExprs :
             call = Call("evaluate_aggregate_expr", << all_rows, sch, expr >>)
       \/ \E rows \in SortRowLists, order_by_exprs \in SortKeys :
             call = Call("order_by", << rows, SortSchema, order_by_exprs >>)

Return(value) ==
    /\ returned = NoResult
    /\ returned' = value
    /\ UNCHANGED <<hasher, stack, call>>

\* run_query(query, &catalog.construct_indexes())
RunQueryCall ==
    /\ call.function_name = "run_query"
    /\ query' = call.args[1]
    /\ physical_plan' = to_physical_plan(query', construct_indexes)
    /\ result' = run_physical_plan(physical_plan')
    /\ Return(result')

\* apply_predicate(row, schema, where_expr)
ApplyPredicateCall ==
    /\ call.function_name = "apply_predicate"
    /\ Return(apply_predicate(call.args[1], call.args[2], call.args[3]))
    /\ UNCHANGED <<query, physical_plan, result>>

\* the Filter arm of run_physical_plan on the result of its child
FilterCall ==
    /\ call.function_name = "Filter"
    /\ Return(RunFilter(call.args[1], call.args[2]))
    /\ UNCHANGED <<query, physical_plan, result>>

\* evaluate_expr(row, schema, expr)
EvaluateExprCall ==
    /\ call.function_name = "evaluate_expr"
    /\ Return(evaluate_expr(call.args[1], call.args[2], call.args[3]))
    /\ UNCHANGED <<query, physical_plan, result>>

\* the Project arm of run_physical_plan on the result of its child
ProjectCall ==
    /\ call.function_name = "Project"
    /\ Return(RunProject(call.args[1], call.args[2]))
    /\ UNCHANGED <<query, physical_plan, result>>

\* order_by(rows, schema, order_by_exprs, cost) on a cost of 0
OrderByCall ==
    /\ call.function_name = "order_by"
    /\ Return(order_by(call.args[1], call.args[2], call.args[3], 0))
    /\ UNCHANGED <<query, physical_plan, result>>

\* QueryStep::to_json
ToJsonCall ==
    /\ call.function_name = "to_json"
    /\ Return(to_json(call.args[1].schema, call.args[1].rows))
    /\ UNCHANGED <<query, physical_plan, result>>

\* construct_index(index, rows): the items of the ConstructedIndex
ConstructIndexCall ==
    /\ call.function_name = "construct_index"
    /\ Return(OkValue(construct_index(call.args[1], call.args[2])))
    /\ UNCHANGED <<query, physical_plan, result>>

\* from_query(query) of the parser
FromQueryCall ==
    /\ call.function_name = "from_query"
    /\ Return(from_query(call.args[1]))
    /\ UNCHANGED <<query, physical_plan, result>>

\* evaluate_aggregate_expr(all_rows, schema, expr)
EvaluateAggregateExprCall ==
    /\ call.function_name = "evaluate_aggregate_expr"
    /\ Return(evaluate_aggregate_expr(call.args[1], call.args[2], call.args[3]))
    /\ UNCHANGED <<query, physical_plan, result>>

NextCalls ==
    \/ RunQueryCall
    \/ EvaluateAggregateExprCall
    \/ FromQueryCall
    \/ ConstructIndexCall
    \/ ToJsonCall
    \/ OrderByCall
    \/ ProjectCall
    \/ EvaluateExprCall
    \/ ApplyPredicateCall
    \/ FilterCall

SpecCalls == InitCalls /\ [][NextCalls]_vars

(***************************************************************************)
(* Properties.                                                             *)
(***************************************************************************)
Entries == Range(stack)

Ok(step) == step.status = "ok"

\* the nodes of a physical plan
RECURSIVE SubPlans(_)
SubPlans(plan) ==
    {plan} \cup
    CASE plan.node \in {"Filter", "Project", "Limit", "OrderBy"} -> SubPlans(plan.from)
      [] plan.node = "Join" -> SubPlans(plan.left_from) \cup SubPlans(plan.right_from)
      [] OTHER -> {}

RowsMatchSchema(step) ==
    Ok(step) => \A i \in DOMAIN step.rows : Len(step.rows[i]) = Len(step.schema)

\* C1: every row of the result of every operator node has as many items as
\* the result's schema has columns: for the plans built node by node, and for
\* every node of the plan that run_query executes (IndexScan included).
C1_RowLengthEqualsSchemaLength ==
    /\ \A e \in Entries : RowsMatchSchema(e.step)
    /\ RowsMatchSchema(result)
    /\ physical_plan # NoPlan =>
          \A node \in SubPlans(physical_plan) : RowsMatchSchema(run_physical_plan(node))

\* a left outer join has padded an unmatched left row with nulls
C1_Witness ==
    \E e \in Entries :
        /\ e.plan.node = "Join"
        /\ e.plan.join_type = "LeftOuter"
        /\ Ok(e.step)
        /\ \E i \in DOMAIN e.step.rows :
              /\ e.step.rows[i][Len(e.step.rows[i])] = Null
              /\ Len(e.step.rows[i]) = Len(e.inputs[1].schema) + Len(e.inputs[2].schema)

\* the rows of table_scan whose values on the index columns are the probe key
RowsWithKey(table_name, table_alias, index, key) ==
    LET scan == table_scan(table_name, table_alias)
    IN  SelectSeq(scan.rows,
                  LAMBDA row :
                      \A c \in DOMAIN index.columns :
                          get_column(row, Column(index.columns[c], table_alias), scan.schema)
                              = {key[c]})

\* C2: IndexScan(T, index, [k]) returns exactly the rows, in table-scan order,
\* that Filter(TableScan(T), c1 = v1 and ... ck = vk) returns; and run_query
\* on Filter(From(T), c = v) that is planned as an IndexScan returns the rows
\* of filtering the full table scan.
C2_IndexScanEqualsFilter ==
    /\ \A e \in Entries :
          e.plan.node = "IndexScan" =>
              /\ Ok(e.step)
              /\ e.step.rows = RowsWithKey(e.plan.table_name, e.plan.table_alias,
                                           e.plan.index, e.plan.values[1])
    /\ (physical_plan.node = "IndexScan" /\ query.node = "Filter") =>
          /\ result.status = Top.step.status
          /\ result.rows = Top.step.rows

\* the rows of the join by nested loops on equal key values
RECURSIVE NestedLoopJoin(_, _, _, _, _)
NestedLoopJoin(left, right, on, join_type, i) ==
    IF i > Len(left.rows) THEN << >>
    ELSE LET matches ==
                 SelectSeq(right.rows,
                           LAMBDA r : Key(r, on.right, right.schema)
                                        = Key(left.rows[i], on.left, left.schema))
         IN  (IF matches = << >>
              THEN IF join_type = "LeftOuter"
                   THEN << left.rows[i] \o [k \in 1..Len(right.schema) |-> Null] >>
                   ELSE << >>
              ELSE [k \in DOMAIN matches |-> left.rows[i] \o matches[k]])
             \o NestedLoopJoin(left, right, on, join_type, i + 1)

JoinEntries == {e \in Entries : e.plan.node = "Join" /\ Ok(e.step)}

\* C3: every row of the output of an Inner join is a left row followed by a
\* right row whose join-key values are equal, whatever the hash function.
C3_InnerJoinKeysEqual ==
    \A e \in JoinEntries :
        e.plan.join_type = "Inner" =>
            \A i \in DOMAIN e.step.rows :
                \E l \in DOMAIN e.inputs[1].rows, r \in DOMAIN e.inputs[2].rows :
                    /\ e.step.rows[i] = e.inputs[1].rows[l] \o e.inputs[2].rows[r]
                    /\ Key(e.inputs[1].rows[l], e.plan.on.left, e.inputs[1].schema)
                         = Key(e.inputs[2].rows[r], e.plan.on.right, e.inputs[2].schema)

Count(seq, x) == Cardinality({i \in DOMAIN seq : seq[i] = x})

\* C4: in a LeftOuter join every left row without a right row of equal key
\* gives exactly one output row, the left row followed by nulls on the right
\* schema; a left row with a match gives no null-padded row.
C4_LeftOuterNullPadding ==
    \A e \in JoinEntries :
        e.plan.join_type = "LeftOuter" =>
            \A l \in DOMAIN e.inputs[1].rows :
                LET left_row == e.inputs[1].rows[l]
                    padded == left_row \o [k \in 1..Len(e.inputs[2].schema) |-> Null]
                    matched ==
                        \E r \in DOMAIN e.inputs[2].rows :
                            Key(e.inputs[2].rows[r], e.plan.on.right, e.inputs[2].schema)
                                = Key(left_row, e.plan.on.left, e.inputs[1].schema)
                IN  Count(e.step.rows, padded)
                        = IF matched THEN 0 ELSE Count(e.inputs[1].rows, left_row)

\* C5: the output of hash_join has the schema leftSchema ++ rightSchema and
\* the rows of the nested-loop join: left rows in left order, for each its
\* matching right rows in right order.
C5_JoinEqualsNestedLoop ==
    \A e \in JoinEntries :
        /\ e.step.schema = e.inputs[1].schema \o e.inputs[2].schema
        /\ e.step.rows = NestedLoopJoin(e.inputs[1], e.inputs[2], e.plan.on,
                                        e.plan.join_type, 1)

LimitEntries == {e \in Entries : e.plan.node = "Limit" /\ Ok(e.inputs[1])}

\* C6: Limit(n, child) returns the first min(n, |child rows|) rows of the
\* child in the child's order, with the child's schema and cost.
C6_LimitTakesFirstRows ==
    \A e \in LimitEntries :
        /\ Ok(e.step)
        /\ Len(e.step.rows) = Min(e.plan.limit, Len(e.inputs[1].rows))
        /\ \A i \in DOMAIN e.step.rows : e.step.rows[i] = e.inputs[1].rows[i]
        /\ e.step.schema = e.inputs[1].schema
        /\ e.step.cost = e.inputs[1].cost

\* a limit below the number of child rows has cut rows off
C6_Witness ==
    \E e \in LimitEntries :
        /\ e.plan.limit > 0
        /\ Len(e.inputs[1].rows) > e.plan.limit
        /\ Len(e.step.rows) = e.plan.limit

OrderByEntries ==
    {e \in Entries : e.plan.node = "OrderBy" /\ Ok(e.inputs[1]) /\ Ok(e.step)}

\* rows a and b have equal values on every ordering key
EqualOnKeys(a, b, sch, order_by_exprs) ==
    \A k \in DOMAIN order_by_exprs :
        get_column(a, order_by_exprs[k].column, sch)
            = get_column(b, order_by_exprs[k].column, sch)

\* C7: OrderBy is stable: the rows that are equal on every ordering key
\* appear in the output in the order they have in the input.
C7_OrderByStable ==
    \A e \in OrderByEntries :
        \A r \in Range(e.inputs[1].rows) :
            SelectSeq(e.step.rows,
                      LAMBDA x : EqualOnKeys(x, r, e.inputs[1].schema, e.plan.order_by_exprs))
              = SelectSeq(e.inputs[1].rows,
                          LAMBDA x : EqualOnKeys(x, r, e.inputs[1].schema,
                                                 e.plan.order_by_exprs))

\* a sort has moved rows while two different rows were equal on every key
C7_Witness ==
    \E e \in OrderByEntries :
        /\ e.step.rows # e.inputs[1].rows
        /\ \E i, j \in DOMAIN e.inputs[1].rows :
              /\ i < j
              /\ e.inputs[1].rows[i] # e.inputs[1].rows[j]
              /\ EqualOnKeys(e.inputs[1].rows[i], e.inputs[1].rows[j],
                             e.inputs[1].schema, e.plan.order_by_exprs)

ProjectEntries ==
    {e \in Entries : e.plan.node = "Project" /\ Ok(e.inputs[1]) /\ Ok(e.step)}

AllAggregate(fields) == \A i \in DOMAIN fields : is_aggregate_expr(fields[i])

C9_CostAdditive ==
    \A e \in Entries :
        Ok(e.step) =>
            /\ e.plan.node = "TableScan" => e.step.cost = Len(e.step.rows)
            /\ e.plan.node = "Filter" =>
                  e.step.cost = e.inputs[1].cost + Len(e.inputs[1].rows)
            /\ e.plan.node = "Join" =>
                  e.step.cost = e.inputs[1].cost + e.inputs[2].cost
                                  + 2 * Len(e.inputs[1].rows) + Len(e.inputs[2].rows)
            /\ e.plan.node = "Limit" => e.step.cost = e.inputs[1].cost
            /\ \A c \in DOMAIN e.inputs : e.step.cost >= e.inputs[c].cost

\* a join of two children that both have rows and a cost has been costed
C9_Witness ==
    \E e \in JoinEntries :
        /\ e.inputs[1].rows # << >>
        /\ e.inputs[2].rows # << >>
        /\ e.inputs[1].cost > 0
        /\ e.inputs[2].cost > 0
        /\ e.step.cost > e.inputs[1].cost + e.inputs[2].cost

\* the equality bindings of a predicate: column = literal, or literal = column
EqualityBindings(expr) ==
    IF expr.tag = "BinaryOperation" /\ expr.op = "Equals"
    THEN IF expr.left.tag = "Column" /\ expr.right.tag = "Literal"
         THEN [c \in {expr.left.column.name} |-> expr.right.literal]
         ELSE IF expr.left.tag = "Literal" /\ expr.right.tag = "Column"
         THEN [c \in {expr.right.column.name} |-> expr.left.literal]
         ELSE EmptyMap
    ELSE EmptyMap

\* the indexes of the table, in declaration order, whose every column is bound
CoveredIndexes(table_name, bindings) ==
    SelectSeq(get_static_catalog[table_name].indexes,
              LAMBDA index : \A c \in DOMAIN index.columns :
                                 index.columns[c] \in DOMAIN bindings)

\* C10: to_physical_plan rewrites Filter(From(T, alias), predicate) into
\* IndexScan{T, alias, index, probeKeys}, index the first index of T whose
\* every column has an equality binding (column = literal or literal =
\* column) in the predicate, probeKeys the one array of the bound literals
\* in the index's column order.
C10_FilterOverFromBecomesIndexScan ==
    (query.node = "Filter" /\ query.from.node = "From") =>
        LET bindings == EqualityBindings(query.filter)
            covered == CoveredIndexes(query.from.table_name, bindings)
        IN  covered # << >> =>
                physical_plan =
                    IndexScan(query.from.table_name, query.from.table_alias, covered[1],
                              << [c \in DOMAIN covered[1].columns |->
                                     bindings[covered[1].columns[c]]] >>)

\* index declarations on a table: on each single column, and on its first
\* two columns together
Declarable(table_name) ==
    LET columns == get_static_catalog[table_name].columns
    IN  {Index(table_name, << c >>) : c \in Range(columns)}
          \cup {Index(table_name, SubSeq(columns, 1, 2))}

\* the sequences of index declarations tried for a table
DeclaredOn(table_name) == SeqsUpTo2(Declarable(table_name))

\* the constructed indexes when the table has the indexes declared and no
\* other table has any
IndexesOn(table_name, declared) ==
    [t \in {table_name} |->
        [i \in DOMAIN declared |->
            [constructed |-> construct_index(declared[i], raw_rows_for_table(table_name)),
             index |-> declared[i]]]]

\* the constructed indexes of a catalog without tables
NoIndexes == [t \in {} |-> << >>]

\* the Filter nodes of the logical plan given to run_query
FiltersOf(q) == {f \in SubPlans(q) : f.node = "Filter"}

\* C11: a Filter(From(T, alias), predicate) whose predicate is no equality
\* between a column and a literal becomes Filter(TableScan(T, alias),
\* predicate), the predicate unchanged, whatever indexes are constructed on
\* T; and a Filter whose child is no From stays a Filter over its child's plan.
C11_NoBindingNoIndexScan ==
    \A f \in FiltersOf(query) :
        /\ (f.from.node = "From" /\ EqualityBindings(f.filter) = EmptyMap) =>
              LET expected == Filter(TableScan(f.from.table_name, f.from.table_alias),
                                     f.filter)
              IN  /\ to_physical_plan(f, construct_indexes) = expected
                  /\ to_physical_plan(f, NoIndexes) = expected
                  /\ \A declared \in DeclaredOn(f.from.table_name) :
                        to_physical_plan(f, IndexesOn(f.from.table_name, declared))
                          = expected
        /\ f.from.node # "From" =>
              /\ to_physical_plan(f, construct_indexes)
                    = Filter(to_physical_plan(f.from, construct_indexes), f.filter)
              /\ \A t \in TableNames : \A declared \in DeclaredOn(t) :
                    to_physical_plan(f, IndexesOn(t, declared)).node = "Filter"

\* run_query has planned a >= comparison on an indexed column of the table
\* as a Filter over the TableScan
C11_Witness ==
    /\ query.node = "Filter"
    /\ query.from.node = "From"
    /\ query.filter.op = "GreaterThanOrEqual"
    /\ Index(query.from.table_name, << query.filter.left.column.name >>)
          \in Range(get_static_catalog[query.from.table_name].indexes)
    /\ physical_plan = Filter(TableScan(query.from.table_name, query.from.table_alias),
                              query.filter)

\* the first position of a row on which the predicate fails, 0 if there is none
FirstFailure(rows, sch, filter) ==
    LET failing == {i \in DOMAIN rows : apply_predicate(rows[i], sch, filter).status # "ok"}
    IN  IF failing = {} THEN 0 ELSE CHOOSE i \in failing : \A j \in failing : i <= j

\* the error run_physical_plan passes on for the error of an expression
AsQueryError(e) == QueryError(e.status, e.column)

\* the Filters of the plan whose child succeeds and whose predicate fails on
\* one of the child's rows
FailingFilters(plan) ==
    {f \in SubPlans(plan) :
        /\ f.node = "Filter"
        /\ Ok(run_physical_plan(f.from))
        /\ LET from == run_physical_plan(f.from)
           IN  FirstFailure(from.rows, from.schema, f.filter) > 0}

\* the operators that fail on children that succeed
FailingFirst(plan) ==
    {s \in SubPlans(plan) :
        /\ ~Ok(run_physical_plan(s))
        /\ \A c \in SubPlans(s) \ {s} : Ok(run_physical_plan(c))}

\* C12: when an operator of the plan fails, run_query returns that error and
\* no rows: the error of an operator that failed on children that succeeded,
\* and for a Filter whose predicate fails on a row, after earlier rows were
\* kept or not, the error of an operator all the same.
C12_ErrorsPropagate ==
    (call.function_name = "run_query" /\ returned # NoResult) =>
        /\ returned = result
        /\ \A f \in FailingFilters(physical_plan) :
              LET from == run_physical_plan(f.from)
                  i == FirstFailure(from.rows, from.schema, f.filter)
              IN  /\ run_physical_plan(f)
                        = AsQueryError(apply_predicate(from.rows[i], from.schema, f.filter))
                  /\ ~Ok(returned)
        /\ FailingFirst(physical_plan) # {} =>
              /\ ~Ok(returned)
              /\ returned.rows = << >>
              /\ \E s \in FailingFirst(physical_plan) : returned = run_physical_plan(s)

\* run_query has returned the error of a Filter predicate that failed on a
\* later row of a join, after the Filter had kept the first row
C12_Witness ==
    /\ call.function_name = "run_query"
    /\ physical_plan.node = "Filter"
    /\ physical_plan.from.node = "Join"
    /\ LET from == run_physical_plan(physical_plan.from)
       IN  /\ Ok(from)
           /\ FirstFailure(from.rows, from.schema, physical_plan.filter) > 1
           /\ apply_predicate(from.rows[1], from.schema, physical_plan.filter)
                 = OkValue(BoolV(TRUE))
    /\ returned = QueryError("ExpectedInt", NoColumn)

\* a value that is no boolean
NonBoolean(v) == v.status = "ok" /\ v.value.kind # "bool"

ExpectedBooleanType == ErrValue("FilterError(ExpectedBooleanType)", NoColumn)

\* C13: apply_predicate returns the boolean exactly when the predicate
\* evaluates to a boolean and the error ExpectedBooleanType when it evaluates
\* to any other value; a Filter whose predicate evaluates to a value that is
\* no boolean on a row returns an error and keeps no row, and the error is
\* ExpectedBooleanType when that row is the first on which the predicate fails.
C13_PredicateMustBeBoolean ==
    /\ (call.function_name = "apply_predicate" /\ returned # NoResult) =>
          LET v == evaluate_expr(call.args[1], call.args[2], call.args[3])
          IN  /\ returned.status = "ok" <=> (v.status = "ok" /\ v.value.kind = "bool")
              /\ returned.status = "ok" => returned.value = v.value
              /\ NonBoolean(v) => returned = ExpectedBooleanType
              /\ v.status # "ok" => returned = v
    /\ (call.function_name = "Filter" /\ returned # NoResult) =>
          LET from == call.args[1]
              filter == call.args[2]
              i == FirstFailure(from.rows, from.schema, filter)
          IN  (\E j \in DOMAIN from.rows :
                    NonBoolean(evaluate_expr(from.rows[j], from.schema, filter))) =>
                /\ ~Ok(returned)
                /\ returned.rows = << >>
                /\ NonBoolean(evaluate_expr(from.rows[i], from.schema, filter)) =>
                      returned = AsQueryError(ExpectedBooleanType)

\* the Filter has returned ExpectedBooleanType for a predicate that is true
\* on the first row and a number on the second
C13_Witness ==
    /\ call.function_name = "Filter"
    /\ Len(call.args[1].rows) = 2
    /\ evaluate_expr(call.args[1].rows[1], call.args[1].schema, call.args[2])
          = OkValue(BoolV(TRUE))
    /\ evaluate_expr(call.args[1].rows[2], call.args[1].schema, call.args[2])
          = OkValue(IntV(1))
    /\ returned = AsQueryError(ExpectedBooleanType)

\* the call of evaluate_expr on a binary operation has returned, and both
\* operands have a value
OperationEvaluated ==
    /\ call.function_name = "evaluate_expr"
    /\ returned # NoResult
    /\ call.args[3].tag = "BinaryOperation"
    /\ evaluate_expr(call.args[1], call.args[2], call.args[3].left).status = "ok"
    /\ evaluate_expr(call.args[1], call.args[2], call.args[3].right).status = "ok"

\* C14: >, >=, <, <=, + and - succeed only on two integers, and on an operand
\* that is a string, a boolean, null or a number that is no integer the
\* result is the error ExpectedInt; = never fails, and is false on operands
\* of different kinds.
C14_OperatorsNeedIntegers ==
    OperationEvaluated =>
        LET left == evaluate_expr(call.args[1], call.args[2], call.args[3].left).value
            right == evaluate_expr(call.args[1], call.args[2], call.args[3].right).value
        IN  IF call.args[3].op = "Equals"
            THEN /\ returned.status = "ok"
                 /\ returned.value.kind = "bool"
                 /\ left.kind # right.kind => returned.value = BoolV(FALSE)
            ELSE /\ returned.status = "ok" => (left.kind = "int" /\ right.kind = "int")
                 /\ (left.kind # "int" \/ right.kind # "int") =>
                       returned = ErrValue("ExpectedInt", NoColumn)

\* evaluate_expr has returned ExpectedInt for 1 < true
C14_Witness ==
    /\ OperationEvaluated
    /\ call.args[3].op = "LessThan"
    /\ call.args[3].left = Literal(IntV(1))
    /\ call.args[3].right = Literal(BoolV(TRUE))
    /\ returned = ErrValue("ExpectedInt", NoColumn)

\* the expression is an aggregate call, or holds one
RECURSIVE ContainsAggregate(_)
ContainsAggregate(expr) ==
    CASE expr.tag = "FunctionCall" -> TRUE
      [] expr.tag = "BinaryOperation" ->
            ContainsAggregate(expr.left) \/ ContainsAggregate(expr.right)
      [] expr.tag = "Nested" -> ContainsAggregate(expr.expr)
      [] OTHER -> FALSE

\* the column references of the expression outside its aggregate calls
RECURSIVE RowColumns(_)
RowColumns(expr) ==
    CASE expr.tag = "Column" -> {expr.column}
      [] expr.tag = "BinaryOperation" -> RowColumns(expr.left) \cup RowColumns(expr.right)
      [] expr.tag = "Nested" -> RowColumns(expr.expr)
      [] OTHER -> {}

\* C15: evaluate_expr and apply_predicate (the evaluation of a Filter
\* predicate on a row) return the error CannotUseAggregateFunctionInFilter
\* for an expression that holds an aggregate call: no value, no abort.
C15_AggregateInFilterIsAnError ==
    ( /\ call.function_name \in {"evaluate_expr", "apply_predicate"}
      /\ returned # NoResult
      /\ ContainsAggregate(call.args[3])
      /\ \A c \in RowColumns(call.args[3]) : get_column(call.args[1], c, call.args[2]) # {} ) =>
        returned = ErrValue("CannotUseAggregateFunctionInFilter", NoColumn)

\* the positions of the schema that hold the Column entry of this reference
Matching(sch, column) == {i \in DOMAIN sch : sch[i] = SchemaColumnColumn(column)}

FirstMatching(sch, column) ==
    CHOOSE i \in Matching(sch, column) : \A j \in Matching(sch, column) : i <= j

ColumnNotFoundInSchema(column) == ErrValue("ColumnNotFoundInSchema", column)

\* the fields that are column references without an entry in the schema
MissingFields(sch, fields) ==
    {i \in DOMAIN fields : fields[i].tag = "Column" /\ Matching(sch, fields[i].column) = {}}

\* C16: a Column expression whose reference has no Column entry of the same
\* name and alias in the schema gives ColumnNotFoundInSchema with that
\* reference, in evaluate_expr, in a Filter predicate and in a Project field;
\* with an entry, its value is the row item at the first position of the
\* schema that holds the entry.
C16_ColumnLookup ==
    /\ (call.function_name = "evaluate_expr" /\ returned # NoResult
          /\ call.args[3].tag = "Column") =>
          LET row == call.args[1]
              sch == call.args[2]
              column == call.args[3].column
          IN  IF Matching(sch, column) = {}
              THEN returned = ColumnNotFoundInSchema(column)
              ELSE returned = OkValue(row[FirstMatching(sch, column)])
    /\ (call.function_name = "Filter" /\ returned # NoResult
          /\ call.args[1].rows # << >> /\ ~ContainsAggregate(call.args[2])) =>
          \A column \in RowColumns(call.args[2]) :
              Matching(call.args[1].schema, column) = {} =>
                  returned = AsQueryError(ColumnNotFoundInSchema(column))
    /\ (call.function_name = "Project" /\ returned # NoResult
          /\ \A i \in DOMAIN call.args[2] : call.args[2][i].tag = "Column") =>
          LET from == call.args[1]
              fields == call.args[2]
              missing == MissingFields(from.schema, fields)
          IN  IF missing # {}
              THEN \E i \in missing :
                      /\ \A j \in missing : i <= j
                      /\ returned = AsQueryError(ColumnNotFoundInSchema(fields[i].column))
              ELSE /\ Ok(returned)
                   /\ Len(returned.rows) = Len(from.rows)
                   /\ \A r \in DOMAIN from.rows : \A i \in DOMAIN fields :
                         returned.rows[r][i]
                           = from.rows[r][FirstMatching(from.schema, fields[i].column)]

\* evaluate_expr has returned the first of the two items of a row whose
\* schema holds the column twice, and the items differ
C16_Witness ==
    /\ call.function_name = "evaluate_expr"
    /\ call.args[3].tag = "Column"
    /\ Cardinality(Matching(call.args[2], call.args[3].column)) = 2
    /\ call.args[1][1] # call.args[1][2]
    /\ returned = OkValue(call.args[1][1])

\* the value of the row on an ordering key
KeyValue(row, sch, order_by_expr) == row[FirstMatching(sch, order_by_expr.column)]

\* the two rows agree on the keys before key i and have values of different
\* kinds (null, bool, int, float, str) on key i: the comparison of the rows
\* has to compare these two values
DifferentKindsCompared(row_a, row_b, sch, order_by_exprs) ==
    \E i \in DOMAIN order_by_exprs :
        /\ \A j \in 1..(i - 1) :
              KeyValue(row_a, sch, order_by_exprs[j]) = KeyValue(row_b, sch, order_by_exprs[j])
        /\ KeyValue(row_a, sch, order_by_exprs[i]).kind
              # KeyValue(row_b, sch, order_by_exprs[i]).kind

\* C17: when the sort of two rows has to compare two values of different
\* kinds on an ordering key, order_by ends with an error: it returns no rows,
\* sorted or not, and it does not abort the process.
C17_CrossKindOrderingIsAnError ==
    ( /\ call.function_name = "order_by"
      /\ returned # NoResult
      /\ Len(call.args[1]) = 2
      /\ DifferentKindsCompared(call.args[1][1], call.args[1][2], call.args[2],
                                call.args[3]) ) =>
        /\ returned.status \notin {"ok", "panic"}
        /\ returned.rows = << >>

\* no two entries of the schema are the same Column reference or the same
\* Named string
UniqueEntries(sch) == \A i \in DOMAIN sch : \A j \in DOMAIN sch : i # j => sch[i] # sch[j]

\* C18: in the schema of the output of every operator no two Column entries
\* are the same (name, alias) reference and no two Named entries are the same
\* string, the output of a Join of two tables with a common column name and
\* of a Project included.
C18_SchemaEntriesUnique ==
    /\ \A e \in Entries : Ok(e.step) => UniqueEntries(e.step.schema)
    /\ Ok(result) => UniqueEntries(result.schema)

\* the display strings of the columns of the schema
DisplayStrings(sch) == {SchemaColumnDisplay(sch[i]) : i \in DOMAIN sch}

\* the first position of the schema whose column prints as the key
FirstDisplayed(sch, key) ==
    CHOOSE i \in DOMAIN sch :
        /\ SchemaColumnDisplay(sch[i]) = key
        /\ \A j \in DOMAIN sch : SchemaColumnDisplay(sch[j]) = key => i <= j

KeyTuple(index, row) ==
    [c \in DOMAIN index.columns |->
        IF index.columns[c] \in DOMAIN row THEN row[index.columns[c]] ELSE Null]

StrictlyIncreasing(positions) ==
    \A i \in DOMAIN positions : \A j \in DOMAIN positions :
        i < j => positions[i] < positions[j]

\* C20: construct_index files the (0-based) position of every row in the
\* bucket under the hash of its key tuple, a missing column counting as
\* null, and in no other bucket, so that rows with the same key tuple share
\* a bucket; the positions of every bucket are strictly increasing.
C20_IndexBuckets ==
    (call.function_name = "construct_index" /\ returned # NoResult) =>
        LET index == call.args[1]
            rows == call.args[2]
            items == returned.value
        IN  /\ \A i \in DOMAIN rows :
                  LET hash == calculate_hash_array(KeyTuple(index, rows[i]))
                  IN  /\ hash \in DOMAIN items
                      /\ \A h \in DOMAIN items : (i - 1) \in Range(items[h]) <=> h = hash
            /\ \A i \in DOMAIN rows : \A j \in DOMAIN rows :
                  KeyTuple(index, rows[i]) = KeyTuple(index, rows[j]) =>
                      \E h \in DOMAIN items : {i - 1, j - 1} \subseteq Range(items[h])
            /\ \A h \in DOMAIN items :
                  /\ items[h] # << >>
                  /\ StrictlyIncreasing(items[h])
                  /\ Range(items[h]) \subseteq {i - 1 : i \in DOMAIN rows}

\* construct_index has put the first and the third row, one without the
\* column and one with null in it, into one bucket, and the second row
\* into another
C20_Witness ==
    /\ call.function_name = "construct_index"
    /\ returned # NoResult
    /\ Len(call.args[2]) = 3
    /\ call.args[1].columns = << "animal_id" >>
    /\ "animal_id" \notin DOMAIN call.args[2][1]
    /\ "animal_id" \in DOMAIN call.args[2][3]
    /\ \E h \in DOMAIN returned.value : returned.value[h] = << 0, 2 >>

\* the row has the values of the probe key on the columns of the index
HasKey(row, sch, table_alias, index, key) ==
    \A c \in DOMAIN index.columns :
        get_column(row, Column(index.columns[c], table_alias), sch) = {key[c]}

\* C21: under every hash function, every row an IndexScan emits has on the
\* columns of the index the values of one of the probe keys.
C21_IndexScanEmitsOnlyProbeKey ==
    \A e \in Entries :
        (e.plan.node = "IndexScan" /\ Ok(e.step)) =>
            \A r \in DOMAIN e.step.rows :
                \E k \in DOMAIN e.plan.values :
                    HasKey(e.step.rows[r], e.step.schema, e.plan.table_alias,
                           e.plan.index, e.plan.values[k])

\* the plan is the first k joins of the FROM clause folded from the left:
\* the leftmost From for k = 0, else a Join of the plan of the first k - 1
\* joins with the From of join k
RECURSIVE IsJoinChain(_, _, _)
IsJoinChain(plan, table, k) ==
    IF k = 0 THEN plan = From(table.relation.name, table.relation.alias)
    ELSE /\ plan.node = "Join"
         /\ plan.right_from = From(table.joins[k].relation.name, table.joins[k].relation.alias)
         /\ IsJoinChain(plan.left_from, table, k - 1)

\* the plan under a node that the clause adds, the plan itself without the clause
Under(present, node, plan) == IF present THEN plan.from ELSE plan

\* the clause has added its node on top of the plan, or is absent
Wrapped(present, node, plan) == present => plan.node = node

\* C22: the plan of an accepted SELECT is, from the outside in, Limit if
\* there is a LIMIT, OrderBy if there is an ORDER BY, Project if the field
\* list is not `*`, Filter if there is a WHERE, and then the joins folded
\* from the left onto the leftmost From, each with a From as right child;
\* an absent clause adds no node.
C22_PlanNesting ==
    (call.function_name = "from_query" /\ returned.status = "ok") =>
        LET ast == call.args[1]
            star == Len(ast.projection) = 1 /\ ast.projection[1].kind = "Wildcard"
            limited == returned.value
            ordered == Under(ast.limit_clause # {}, "Limit", limited)
            projected == Under(ast.order_by # {}, "OrderBy", ordered)
            filtered == Under(~star, "Project", projected)
            joined == Under(ast.selection # {}, "Filter", filtered)
        IN  /\ Wrapped(ast.limit_clause # {}, "Limit", limited)
            /\ ast.limit_clause # {} => ast.limit_clause = {limited.limit}
            /\ Wrapped(ast.order_by # {}, "OrderBy", ordered)
            /\ Wrapped(~star, "Project", projected)
            /\ Wrapped(ast.selection # {}, "Filter", filtered)
            /\ ast.selection # {} => ast.selection = {filtered.filter}
            /\ IsJoinChain(joined, ast.from[1], Len(ast.from[1].joins))

\* the adapter has returned the plan of a SELECT with two joins and every clause
C22_Witness ==
    /\ call.function_name = "from_query"
    /\ returned.status = "ok"
    /\ Len(call.args[1].from[1].joins) = 2
    /\ call.args[1].selection # {}
    /\ call.args[1].order_by # {}
    /\ call.args[1].limit_clause # {}
    /\ returned.value.node = "Limit"
    /\ returned.value.from.from.node = "Project"
    /\ returned.value.from.from.from.from.left_from.node = "Join"

\* the predicate has a value, true or false, on every row
EvaluatesOnAll(rows, sch, filter) ==
    \A i \in DOMAIN rows : apply_predicate(rows[i], sch, filter).status = "ok"

\* the rows on which the predicate is true, in their order
RowsWhereTrue(rows, sch, filter) ==
    SelectSeq(rows, LAMBDA row : apply_predicate(row, sch, filter) = OkValue(BoolV(TRUE)))

\* C23: when the predicate evaluates without error on every row of the
\* child, the Filter returns the child's rows on which it is true, in the
\* child's order and as they are, under the schema of the child.
C23_FilterKeepsTrueRows ==
    (call.function_name = "Filter" /\ returned # NoResult) =>
        LET from == call.args[1]
            filter == call.args[2]
        IN  EvaluatesOnAll(from.rows, from.schema, filter) =>
                /\ Ok(returned)
                /\ returned.schema = from.schema
                /\ returned.rows = RowsWhereTrue(from.rows, from.schema, filter)

\* a Filter has returned the second of two rows and dropped the first
C23_Witness ==
    /\ call.function_name = "Filter"
    /\ returned # NoResult
    /\ EvaluatesOnAll(call.args[1].rows, call.args[1].schema, call.args[2])
    /\ Len(call.args[1].rows) = 2
    /\ Ok(returned)
    /\ returned.rows = << call.args[1].rows[2] >>
    /\ call.args[1].rows[1] # call.args[1].rows[2]

\* how many times the row is in the rows
Occurrences(rows, row) == Cardinality({i \in DOMAIN rows : rows[i] = row})

\* the order of the two rows on key i: that of the values, reversed for Desc
KeyOrdering(row_a, row_b, sch, order_by_expr) ==
    LET o == compare_values(KeyValue(row_a, sch, order_by_expr),
                            KeyValue(row_b, sch, order_by_expr))
    IN  IF order_by_expr.order = "Asc" THEN o
        ELSE IF o = "Less" THEN "Greater"
        ELSE IF o = "Greater" THEN "Less"
        ELSE o

\* row_a is not after row_b: on the first key on which they differ, if there
\* is one, row_a is the lesser
NotAfter(row_a, row_b, sch, order_by_exprs) ==
    \A i \in DOMAIN order_by_exprs :
        (\A j \in 1..(i - 1) : KeyOrdering(row_a, row_b, sch, order_by_exprs[j]) = "Equal")
            => KeyOrdering(row_a, row_b, sch, order_by_exprs[i]) # "Greater"

\* C24: the output of OrderBy is a permutation of its input in which every
\* row is not after any later row under the comparison by the keys in their
\* listed order, the first differing key deciding, reversed for Desc.
C24_OrderBySorts ==
    \A e \in OrderByEntries :
        /\ Len(e.step.rows) = Len(e.inputs[1].rows)
        /\ \A r \in Range(e.inputs[1].rows) \cup Range(e.step.rows) :
              Occurrences(e.step.rows, r) = Occurrences(e.inputs[1].rows, r)
        /\ \A i \in DOMAIN e.step.rows : \A j \in DOMAIN e.step.rows :
              i < j => NotAfter(e.step.rows[i], e.step.rows[j], e.inputs[1].schema,
                                e.plan.order_by_exprs)

\* a sort on a Desc key has moved the last of three or more rows to the front
C24_Witness ==
    \E e \in OrderByEntries :
        /\ Len(e.inputs[1].rows) >= 3
        /\ \E k \in DOMAIN e.plan.order_by_exprs : e.plan.order_by_exprs[k].order = "Desc"
        /\ e.step.rows[1] = e.inputs[1].rows[Len(e.inputs[1].rows)]
        /\ e.step.rows[1] # e.inputs[1].rows[1]

RECURSIVE IntSum(_, _, _)
IntSum(rows, sch, expr) ==
    IF rows = << >> THEN 0
    ELSE evaluate_expr(Head(rows), sch, expr).value.n + IntSum(Tail(rows), sch, expr)

\* the value of an aggregate field over all the rows: sum(arg), or sum(arg)
\* plus an integer literal
AggregateValue(rows, sch, field) ==
    IF field.tag = "FunctionCall" THEN IntV(IntSum(rows, sch, field.args[1]))
    ELSE IntV(IntSum(rows, sch, field.left.args[1]) + field.right.literal.n)

C27_ModesAgree ==
    (call.function_name = "evaluate_aggregate_expr" /\ returned # NoResult) =>
        /\ returned.status # "panic"
        /\ (Len(call.args[1]) = 1 /\ ~is_aggregate_expr(call.args[3])) =>
              returned = evaluate_expr(call.args[1][1], call.args[2], call.args[3])

\* the sum of the sizes of the buckets under the hashes
RECURSIVE BucketSizes(_, _)
BucketSizes(items, hashes) ==
    IF hashes = {} THEN 0
    ELSE LET h == CHOOSE x \in hashes : TRUE
         IN  Len(items[h]) + BucketSizes(items, hashes \ {h})

\* the places of the buckets that hold the position
PlacesOf(items, position, n) ==
    {<< h, k >> \in (DOMAIN items) \X (1..n) :
        k \in DOMAIN items[h] /\ items[h][k] = position}

\* C28: the buckets of a constructed index partition the row positions
\* 0..n-1: every position is at exactly one place of exactly one bucket, no
\* bucket is empty or holds another number, and the sizes of the buckets add
\* up to n.
C28_BucketsPartitionPositions ==
    (call.function_name = "construct_index" /\ returned # NoResult) =>
        LET n == Len(call.args[2])
            items == returned.value
        IN  /\ \A position \in 0..(n - 1) : Cardinality(PlacesOf(items, position, n)) = 1
            /\ \A h \in DOMAIN items :
                  /\ items[h] # << >>
                  /\ \A k \in DOMAIN items[h] : items[h][k] \in 0..(n - 1)
            /\ BucketSizes(items, DOMAIN items) = n

\* an index over three rows has a bucket of two rows with different keys and
\* a bucket of one row
C28_Witness ==
    /\ call.function_name = "construct_index"
    /\ returned # NoResult
    /\ Len(call.args[2]) = 3
    /\ Cardinality(DOMAIN returned.value) = 2
    /\ \E h \in DOMAIN returned.value :
          /\ Len(returned.value[h]) = 2
          /\ KeyTuple(call.args[1], call.args[2][returned.value[h][1] + 1])
                # KeyTuple(call.args[1], call.args[2][returned.value[h][2] + 1])

\* the query is Filter(From(T, alias), c = v) and its column c carries
\* another table alias than the From
ForeignAliasEquality(q) ==
    /\ q.node = "Filter"
    /\ q.from.node = "From"
    /\ IsColumnComparison(q.filter)
    /\ q.filter.op = "Equals"
    /\ q.filter.left.column.table_alias # q.from.table_alias

\* the Filter of the query on the TableScan of its From, without a rewrite
FilterOverTableScan(q) ==
    RunFilter(table_scan(q.from.table_name, q.from.table_alias), q.filter)

\* C29: when the predicate c = v of Filter(From(T, alias), c = v) names c
\* with another table alias than the From, so that the Filter over the
\* TableScan returns ColumnNotFoundInSchema, run_query returns
\* ColumnNotFoundInSchema as well, with or without an index of T on c.
C29_RewriteKeepsColumnNotFound ==
    ( /\ result.status # "none"
      /\ ForeignAliasEquality(query)
      /\ FilterOverTableScan(query).status = "ColumnNotFoundInSchema" ) =>
        result.status = "ColumnNotFoundInSchema"

\* the ordering key columns that the schema does not have
MissingKeys(sch, order_by_exprs) ==
    {k \in DOMAIN order_by_exprs : Matching(sch, order_by_exprs[k].column) = {}}

\* C30: an OrderBy with a key column that the schema of its child does not
\* have ends with ColumnNotFoundInSchema, whatever the number of child rows,
\* none and one included: it does not abort and returns no rows.
C30_MissingKeyIsAnError ==
    \A e \in Entries :
        ( /\ e.plan.node = "OrderBy"
          /\ Ok(e.inputs[1])
          /\ MissingKeys(e.inputs[1].schema, e.plan.order_by_exprs) # {} ) =>
            e.step.status = "ColumnNotFoundInSchema"

====
